---- MODULE Spec2Model ----
(***************************************************************************)
(* A model of the hex_str crate: the byte <-> hex-text codec (utils.rs),   *)
(* the fixed-length buffer HexArray<N> (hex_array.rs), the variable-length *)
(* buffer HexVector (hex_vector.rs), the borrowed view HexSlice            *)
(* (hex_slice.rs) and the case-tagged families HexStringN* / HexString*    *)
(* (hex_string_n.rs, hex_string.rs).                                       *)
(*                                                                         *)
(* Texts and buffers are sequences of u8 values (0..255).  A state is a    *)
(* small work bench: one byte buffer `buf`, one text `text`, and the       *)
(* value `ret` returned by the last call `op`.  The benches of the tagged   *)
(* values hold a typed value `val` (and a second one, `peer`)  instead.    *)
(***************************************************************************)
EXTENDS Integers, Sequences, FiniteSets, TLC

VARIABLES
    op,         \* name of the last operation that ran
    N,          \* the const generic N of the last fixed-length call
    buf,        \* the byte buffer on the bench (a sequence of u8)
    text,       \* the text on the bench (a sequence of u8, the str's bytes)
    text_from,  \* how `text` got there: "none", "input", "to_lower", "to_upper"
    policy,     \* the case policy of the last call: "any", "lower", "upper", "none"
    ret,        \* the value the last call returned
    reads,      \* the 0-based input positions the last call read
    val,        \* the typed value on the bench: [family, tag, bytes]
    peer,       \* a second typed value: the right operand of ==, or the
                \* source of the last conversion as the call left it
    orig,       \* the bytes val held when the current run of conversions began
    hops        \* the number of conversions since then

vars == <<op, N, buf, text, text_from, policy, ret, reads, val, peer, orig, hops>>

\* the variables of the typed-value benches
valvars == <<val, peer, orig, hops>>

----------------------------------------------------------------------------
(* Bounds of the model *)

\* longest text drawn exhaustively over CoreChars
MaxTextLen == 4
\* largest const generic N of a fixed-length call
MaxN == 2
\* longest buffer drawn exhaustively over SampleBytes
MaxBufLen == 2
\* width of usize in bits (the model's machine word)
WordBits == 3

----------------------------------------------------------------------------
(* Input domains *)

U8 == 0..255

\* '0' '9' 'a' 'F' 'g' : a digit at each end of its range, one letter of
\* each case, and the first character after 'f'
CoreChars == {48, 57, 97, 70, 103}

\* '/' '0' '9' ':' '@' 'A' 'F' 'G' '`' 'a' 'f' 'g' 'z' : both ends of every
\* accepted range and the characters right outside of them
EdgeChars == {47, 48, 57, 58, 64, 65, 70, 71, 96, 97, 102, 103, 122}

SeqsUpTo(S, n) == UNION {[1..k -> S] : k \in 0..n}

\* the texts the specification and the documentation name
ExampleTexts ==
    { <<49, 97, 50, 98>>,            \* "1a2b"
      <<49, 97, 50, 98, 51>>,        \* "1a2b3", 5 characters
      <<122, 122>>,                  \* "zz"
      <<49, 49, 122, 122>>,          \* "11zz"
      <<65, 65>>,                    \* "AA"
      <<97, 97>>,                    \* "aa"
      <<65, 97>>,                    \* "Aa"
      <<97, 98, 99>>,                \* "abc"
      <<48, 49, 100, 101>>,          \* "01de"
      <<48, 49, 68, 69>>,            \* "01DE"
      <<49, 122, 50, 98>>,           \* "1z2b"
      <<49, 97, 122, 122>> }         \* "1azz"

Texts == SeqsUpTo(CoreChars, MaxTextLen) \cup [1..2 -> EdgeChars] \cup ExampleTexts

\* 0x00 0x09 0x0a 0x1a 0xde 0xff
SampleBytes == {0, 9, 10, 26, 222, 255}

Buffers == SeqsUpTo(SampleBytes, MaxBufLen) \cup [1..1 -> U8]
               \cup { <<1, 222>>, <<26, 43>> }

Ns == 0..MaxN

----------------------------------------------------------------------------
(* Values *)

None == <<>>
Some(x) == <<x>>

Ok(v) == [tag |-> "Ok", value |-> v]

\* HexArrayError::InvalidLength { expected, encountered }
HexArrayError_InvalidLength(e, c) ==
    [tag |-> "InvalidLength", expected |-> e, encountered |-> c]

\* HexVectorError::InvalidLength { encountered }
HexVectorError_InvalidLength(c) == [tag |-> "InvalidLength", encountered |-> c]

\* HexArrayError::InvalidByte / HexVectorError::InvalidByte { msb, lsb, index }
InvalidByte(m, l, i) == [tag |-> "InvalidByte", msb |-> m, lsb |-> l, index |-> i]

\* FromStrError::InvalidLength and FromStrError::InvalidCharacter carry nothing
FromStrError_InvalidLength == [tag |-> "InvalidLength"]
FromStrError_InvalidCharacter == [tag |-> "InvalidCharacter"]

\* an out-of-bounds get_unchecked or an unwrap() of None: any outcome
UB == [tag |-> "UB"]
Panic == [tag |-> "panic"]

NoRet == [tag |-> "none"]

\* a typed value: the type family, the case tag and the bytes it holds
Value(f, t, b) == [family |-> f, tag |-> t, bytes |-> b]
NoVal == Value("none", "none", <<>>)
\* a value that was moved out of by a consuming call
Moved == Value("moved", "none", <<>>)

----------------------------------------------------------------------------
(* Machine arithmetic *)

UsizeModulus == 2 ^ WordBits

\* an addition that wraps at half the word
wrapping_add_half_word(x, y) == (x + y) % (UsizeModulus \div 2)

wrapping_add(x, y) == (x + y) % UsizeModulus

RECURSIVE BitOr(_, _)
BitOr(x, y) ==
    IF x = 0 THEN y
    ELSE IF y = 0 THEN x
    ELSE (IF x % 2 = 1 \/ y % 2 = 1 THEN 1 ELSE 0) + 2 * BitOr(x \div 2, y \div 2)

RECURSIVE BitAnd(_, _)
BitAnd(x, y) ==
    IF x = 0 \/ y = 0 THEN 0
    ELSE (IF x % 2 = 1 /\ y % 2 = 1 THEN 1 ELSE 0) + 2 * BitAnd(x \div 2, y \div 2)

\* u8 shifts
Shl4(x) == (x * 16) % 256
\* a shift by three bits
Shr3(x) == x \div 8

Shr4(x) == x \div 16

----------------------------------------------------------------------------
(* utils.rs: the byte-pair codec *)

\* the closure parse_hex of from_hex: '0'..'9', 'a'..'f', 'A'..'F'
parse_hex(v) ==
    IF v \in 48..57 THEN Some(v - 48)
    ELSE IF v \in 97..102 THEN Some(v - 97 + 10)
    ELSE IF v \in 65..70 THEN Some(v - 65 + 10)
    ELSE None

\* a closure taking 'a'..'g'
parse_hex_lower_through_g(v) ==
    IF v \in 48..57 THEN Some(v - 48)
    ELSE IF v \in 97..103 THEN Some(v - 97 + 10)
    ELSE None

\* the closure parse_hex of from_hex_lower: '0'..'9', 'a'..'f'
parse_hex_lower(v) ==
    IF v \in 48..57 THEN Some(v - 48)
    ELSE IF v \in 97..102 THEN Some(v - 97 + 10)
    ELSE None

\* a closure taking 'A'..'G'
parse_hex_upper_through_G(v) ==
    IF v \in 48..57 THEN Some(v - 48)
    ELSE IF v \in 65..71 THEN Some(v - 65 + 10)
    ELSE None

\* the closure parse_hex of from_hex_upper: '0'..'9', 'A'..'F'
parse_hex_upper(v) ==
    IF v \in 48..57 THEN Some(v - 48)
    ELSE IF v \in 65..70 THEN Some(v - 65 + 10)
    ELSE None

\* from_hex with the shift applied to the low nibble
from_hex_shift_low(p) ==
    LET a == parse_hex(p[1])
        b == parse_hex(p[2])
    IN  IF a = None THEN None
        ELSE IF b = None THEN None
        ELSE Some(BitOr(a[1], Shl4(b[1])))

\* from_hex([a, b]): a? then b? then Some(a << 4 | b)
from_hex(p) ==
    LET a == parse_hex(p[1])
        b == parse_hex(p[2])
    IN  IF a = None THEN None
        ELSE IF b = None THEN None
        ELSE Some(BitOr(Shl4(a[1]), b[1]))

from_hex_lower(p) ==
    LET a == parse_hex_lower(p[1])
        b == parse_hex_lower(p[2])
    IN  IF a = None THEN None
        ELSE IF b = None THEN None
        ELSE Some(BitOr(Shl4(a[1]), b[1]))

from_hex_upper(p) ==
    LET a == parse_hex_upper(p[1])
        b == parse_hex_upper(p[2])
    IN  IF a = None THEN None
        ELSE IF b = None THEN None
        ELSE Some(BitOr(Shl4(a[1]), b[1]))

\* the closure helper of to_hex_lower; -1 stands for unreachable!()
to_hex_lower_helper(v) ==
    IF v \in 0..9 THEN v + 48
    ELSE IF v \in 10..15 THEN v - 10 + 97
    ELSE -1

\* the closure helper of to_hex_upper; -1 stands for unreachable!()
to_hex_upper_helper(v) ==
    IF v \in 0..9 THEN v + 48
    ELSE IF v \in 10..15 THEN v - 10 + 65
    ELSE -1

\* to_hex_lower with the low nibble emitted first
to_hex_lower_low_first(v) ==
    LET a == Shr4(BitAnd(v, 240))
        b == BitAnd(v, 15)
    IN  <<to_hex_lower_helper(b), to_hex_lower_helper(a)>>

\* to_hex_lower(v): [helper((v & 0xf0) >> 4), helper(v & 0x0f)]
to_hex_lower(v) ==
    LET a == Shr4(BitAnd(v, 240))
        b == BitAnd(v, 15)
    IN  <<to_hex_lower_helper(a), to_hex_lower_helper(b)>>

\* to_hex_upper calling the helper of to_hex_lower
to_hex_upper_lower_helper(v) ==
    LET a == Shr4(BitAnd(v, 240))
        b == BitAnd(v, 15)
    IN  <<to_hex_lower_helper(a), to_hex_lower_helper(b)>>

to_hex_upper(v) ==
    LET a == Shr4(BitAnd(v, 240))
        b == BitAnd(v, 15)
    IN  <<to_hex_upper_helper(a), to_hex_upper_helper(b)>>

----------------------------------------------------------------------------
(* utils::parse, utils::parse_lower, utils::parse_upper: the two-argument   *)
(* decoders hex_array.rs, hex_vector.rs and hex_slice.rs call.  Their       *)
(* bodies are not among the source files; they follow section 4.1 of the    *)
(* specification: decode_nibble per case policy, decode_byte = hi*16 + lo,  *)
(* nothing when either nibble fails.                                        *)

decode_nibble(byte, case_policy) ==
    IF byte \in 48..57 THEN Some(byte - 48)
    ELSE IF byte \in 97..102 /\ case_policy \in {"any", "lower"} THEN Some(byte - 97 + 10)
    ELSE IF byte \in 65..70 /\ case_policy \in {"any", "upper"} THEN Some(byte - 65 + 10)
    ELSE None

decode_byte(hi, lo, case_policy) ==
    LET h == decode_nibble(hi, case_policy)
        l == decode_nibble(lo, case_policy)
    IN  IF h = None \/ l = None THEN None ELSE Some(h[1] * 16 + l[1])

parse(msb, lsb) == decode_byte(msb, lsb, "any")
parse_lower(msb, lsb) == decode_byte(msb, lsb, "lower")
parse_upper(msb, lsb) == decode_byte(msb, lsb, "upper")

\* a call through the parameter conversion_fn: impl Fn(u8, u8) -> Option<u8>;
\* the function passed is represented by its name
call_conversion_fn(conversion_fn, msb, lsb) ==
    CASE conversion_fn = "parse" -> parse(msb, lsb)
      [] conversion_fn = "parse_lower" -> parse_lower(msb, lsb)
      [] conversion_fn = "parse_upper" -> parse_upper(msb, lsb)

\* bytes.get_unchecked(i), i in bounds (the callers below guard the bound)
get_unchecked(bytes, i) == bytes[i + 1]

----------------------------------------------------------------------------
(* Formatting: flat_map of to_hex_lower / to_hex_upper over the bytes *)

\* to_lower writing the last byte first
RECURSIVE to_lower_last_first(_)
to_lower_last_first(bytes) ==
    IF bytes = <<>> THEN <<>>
    ELSE to_lower_last_first(Tail(bytes)) \o to_hex_lower(Head(bytes))

\* HexSlice::to_lower (hex_slice.rs) and HexVector::to_lower (hex_vector.rs)
RECURSIVE to_lower(_)
to_lower(bytes) ==
    IF bytes = <<>> THEN <<>>
    ELSE to_hex_lower(Head(bytes)) \o to_lower(Tail(bytes))

\* HexSlice::to_upper (hex_slice.rs) and HexVector::to_upper (hex_vector.rs)
RECURSIVE to_upper(_)
to_upper(bytes) ==
    IF bytes = <<>> THEN <<>>
    ELSE to_hex_upper(Head(bytes)) \o to_upper(Tail(bytes))

----------------------------------------------------------------------------
(* hex_array.rs: fn try_parse<const N: usize>(bytes, conversion_fn)         *)
(* A result is [ret |-> the Result returned, reads |-> positions read].     *)

\* ok_or reporting the number of the pair, i / 2
array_ok_or_pair_index(msb, lsb, i) == InvalidByte(msb, lsb, i \div 2)

\* .ok_or(HexArrayError::InvalidByte { msb, lsb, index: i })
array_ok_or(msb, lsb, i) == InvalidByte(msb, lsb, i)

\* the loop `for v in &mut uninitialized`: todo slots are left to write,
\* i and j are the read positions, out the slots written so far
RECURSIVE array_try_parse_loop(_, _, _, _, _, _, _)
array_try_parse_loop(bytes_ref, conversion_fn, todo, i, j, out, seen) ==
    IF todo = 0 THEN [ret |-> Ok(out), reads |-> seen]
    ELSE IF i >= Len(bytes_ref) \/ j >= Len(bytes_ref)
    THEN [ret |-> UB, reads |-> seen \cup {i, j}]
    ELSE LET msb == get_unchecked(bytes_ref, i)
             lsb == get_unchecked(bytes_ref, j)
             w == call_conversion_fn(conversion_fn, msb, lsb)
         IN  IF w = None
             THEN [ret |-> array_ok_or(msb, lsb, i), reads |-> seen \cup {i, j}]
             ELSE array_try_parse_loop(bytes_ref, conversion_fn, todo - 1,
                                       wrapping_add(i, 2), wrapping_add(j, 2),
                                       Append(out, w[1]), seen \cup {i, j})

\* try_parse with the length check reduced to `bytes_ref.len() / 2 != N`
array_try_parse_no_parity_check(bytes_ref, conversion_fn, n) ==
    IF Len(bytes_ref) \div 2 # n
    THEN [ret |-> HexArrayError_InvalidLength(n * 2, Len(bytes_ref)), reads |-> {}]
    ELSE array_try_parse_loop(bytes_ref, conversion_fn, n, 0, 1, <<>>, {})

array_try_parse(bytes_ref, conversion_fn, n) ==
    IF Len(bytes_ref) % 2 # 0 \/ Len(bytes_ref) \div 2 # n
    THEN [ret |-> HexArrayError_InvalidLength(n * 2, Len(bytes_ref)), reads |-> {}]
    ELSE array_try_parse_loop(bytes_ref, conversion_fn, n, 0, 1, <<>>, {})

\* the entry points HexArray::<N>::try_parse, try_parse_lower, try_parse_upper
HexArray_try_parse(bytes, n) == array_try_parse(bytes, "parse", n)
\* try_parse_lower passing utils::parse
HexArray_try_parse_lower_any(bytes, n) == array_try_parse(bytes, "parse", n)

HexArray_try_parse_lower(bytes, n) == array_try_parse(bytes, "parse_lower", n)
HexArray_try_parse_upper(bytes, n) == array_try_parse(bytes, "parse_upper", n)

----------------------------------------------------------------------------
(* hex_array.rs: fn try_parse_boxed<const N: usize>(bytes, conversion_fn) *)

\* the boxed ok_or reporting the slot written, as the commented-out loop did
array_boxed_ok_or_slot(msb, lsb, i) == InvalidByte(msb, lsb, i \div 2)

\* .ok_or(HexArrayError::InvalidByte { msb, lsb, index: i })
array_boxed_ok_or(msb, lsb, i) == InvalidByte(msb, lsb, i)

\* the loop `for v in &mut *uninitialized`
RECURSIVE array_try_parse_boxed_loop(_, _, _, _, _, _, _)
array_try_parse_boxed_loop(bytes_ref, conversion_fn, todo, i, j, out, seen) ==
    IF todo = 0 THEN [ret |-> Ok(out), reads |-> seen]
    ELSE IF i >= Len(bytes_ref) \/ j >= Len(bytes_ref)
    THEN [ret |-> UB, reads |-> seen \cup {i, j}]
    ELSE LET msb == get_unchecked(bytes_ref, i)
             lsb == get_unchecked(bytes_ref, j)
             w == call_conversion_fn(conversion_fn, msb, lsb)
         IN  IF w = None
             THEN [ret |-> array_boxed_ok_or(msb, lsb, i), reads |-> seen \cup {i, j}]
             ELSE array_try_parse_boxed_loop(bytes_ref, conversion_fn, todo - 1,
                                             wrapping_add(i, 2), wrapping_add(j, 2),
                                             Append(out, w[1]), seen \cup {i, j})

array_try_parse_boxed(bytes_ref, conversion_fn, n) ==
    IF Len(bytes_ref) % 2 # 0 \/ Len(bytes_ref) \div 2 # n
    THEN [ret |-> HexArrayError_InvalidLength(n * 2, Len(bytes_ref)), reads |-> {}]
    ELSE array_try_parse_boxed_loop(bytes_ref, conversion_fn, n, 0, 1, <<>>, {})

\* the entry points HexArray::<N>::try_parse_boxed, _lower_boxed, _upper_boxed
HexArray_try_parse_boxed(bytes, n) == array_try_parse_boxed(bytes, "parse", n)
HexArray_try_parse_lower_boxed(bytes, n) == array_try_parse_boxed(bytes, "parse_lower", n)
HexArray_try_parse_upper_boxed(bytes, n) == array_try_parse_boxed(bytes, "parse_upper", n)

\* HexArray::new(v): Self(v.into())
HexArray_new(v) == Value("HexArray", "generic", v)

\* HexArray::new_boxed(v): mem::transmute(v.into()), the box of the array
\* taken as the box of the buffer
HexArray_new_boxed(v) == [tag |-> "Box", value |-> Value("HexArray", "generic", v)]

----------------------------------------------------------------------------
(* hex_vector.rs: fn try_parse(bytes, conversion_fn) *)

\* a capacity that is never 0
with_capacity_never_empty(n) == IF n = 0 THEN 1 ELSE n

\* Vec::with_capacity(n).capacity(): at least n; the allocator in use
\* returns exactly n for a Vec<u8>
with_capacity(n) == n

\* ok_or reporting the position of the character that failed
vector_ok_or_failing_char(msb, lsb, i) ==
    InvalidByte(msb, lsb, IF decode_nibble(msb, "any") = None THEN i ELSE i + 1)

\* .ok_or(HexVectorError::InvalidByte { msb, lsb, index: i })
vector_ok_or(msb, lsb, i) == InvalidByte(msb, lsb, i)

\* the loop handing the bytes pushed so far back with the error
RECURSIVE vector_try_parse_loop_partial(_, _, _, _, _, _, _)
vector_try_parse_loop_partial(bytes, conversion_fn, todo, i, j, out, seen) ==
    IF todo = 0 THEN [ret |-> Ok(out), reads |-> seen]
    ELSE IF i >= Len(bytes) \/ j >= Len(bytes)
    THEN [ret |-> UB, reads |-> seen \cup {i, j}]
    ELSE LET msb == get_unchecked(bytes, i)
             lsb == get_unchecked(bytes, j)
             w == call_conversion_fn(conversion_fn, msb, lsb)
         IN  IF w = None
             THEN [ret |-> [tag |-> "InvalidByte", msb |-> msb, lsb |-> lsb,
                            index |-> i, value |-> out],
                   reads |-> seen \cup {i, j}]
             ELSE vector_try_parse_loop_partial(bytes, conversion_fn, todo - 1,
                                                wrapping_add(i, 2), wrapping_add(j, 2),
                                                Append(out, w[1]), seen \cup {i, j})

\* the loop `for _ in 0..ret.capacity()`
RECURSIVE vector_try_parse_loop(_, _, _, _, _, _, _)
vector_try_parse_loop(bytes, conversion_fn, todo, i, j, out, seen) ==
    IF todo = 0 THEN [ret |-> Ok(out), reads |-> seen]
    ELSE IF i >= Len(bytes) \/ j >= Len(bytes)
    THEN [ret |-> UB, reads |-> seen \cup {i, j}]
    ELSE LET msb == get_unchecked(bytes, i)
             lsb == get_unchecked(bytes, j)
             w == call_conversion_fn(conversion_fn, msb, lsb)
         IN  IF w = None
             THEN [ret |-> vector_ok_or(msb, lsb, i), reads |-> seen \cup {i, j}]
             ELSE vector_try_parse_loop(bytes, conversion_fn, todo - 1,
                                        wrapping_add(i, 2), wrapping_add(j, 2),
                                        Append(out, w[1]), seen \cup {i, j})

\* try_parse without the length check
vector_try_parse_no_length_check(bytes, conversion_fn) ==
    vector_try_parse_loop(bytes, conversion_fn,
                          with_capacity(Len(bytes) \div 2), 0, 1, <<>>, {})

\* try_parse decoding every pair and returning the last failure
vector_try_parse_last_failure(bytes, conversion_fn) ==
    IF Len(bytes) % 2 # 0
    THEN [ret |-> HexVectorError_InvalidLength(Len(bytes)), reads |-> {}]
    ELSE LET bad == {k \in 0..(Len(bytes) \div 2 - 1) :
                        call_conversion_fn(conversion_fn, bytes[2 * k + 1], bytes[2 * k + 2]) = None}
         IN  IF bad = {}
             THEN vector_try_parse_loop(bytes, conversion_fn,
                                        with_capacity(Len(bytes) \div 2), 0, 1, <<>>, {})
             ELSE LET k == CHOOSE m \in bad : \A o \in bad : o <= m
                  IN  [ret |-> vector_ok_or(bytes[2 * k + 1], bytes[2 * k + 2], 2 * k),
                       reads |-> 0..(Len(bytes) - 1)]

vector_try_parse(bytes, conversion_fn) ==
    IF Len(bytes) % 2 # 0
    THEN [ret |-> HexVectorError_InvalidLength(Len(bytes)), reads |-> {}]
    ELSE vector_try_parse_loop(bytes, conversion_fn,
                               with_capacity(Len(bytes) \div 2), 0, 1, <<>>, {})

\* the entry points HexVector::try_parse, try_parse_lower, try_parse_upper
HexVector_try_parse(bytes) == vector_try_parse(bytes, "parse")
HexVector_try_parse_lower(bytes) == vector_try_parse(bytes, "parse_lower")
HexVector_try_parse_upper(bytes) == vector_try_parse(bytes, "parse_upper")

----------------------------------------------------------------------------
(* hex_string_n.rs and hex_string.rs: impl_h! FromStr::from_str.  The macro  *)
(* is instantiated once per tag; every instance calls utils::from_hex.      *)

Tags == {"generic", "lower", "upper"}

\* the loop `for v in &mut ret` over the iterator s.bytes(); pos is the
\* iterator's position, next() past the end makes unwrap() panic
RECURSIVE HexStringN_from_str_loop(_, _, _, _, _)
HexStringN_from_str_loop(s, todo, pos, out, seen) ==
    IF todo = 0 THEN [ret |-> Ok(out), reads |-> seen]
    ELSE IF pos + 1 >= Len(s) THEN [ret |-> Panic, reads |-> seen]
    ELSE LET a == s[pos + 1]
             b == s[pos + 2]
             v == from_hex(<<a, b>>)
         IN  IF v = None
             THEN [ret |-> FromStrError_InvalidCharacter, reads |-> seen \cup {pos, pos + 1}]
             ELSE HexStringN_from_str_loop(s, todo - 1, pos + 2, Append(out, v[1]),
                                           seen \cup {pos, pos + 1})

HexStringN_from_str(tag, s, n) ==
    IF Len(s) % 2 # 0 \/ Len(s) \div 2 # n
    THEN [ret |-> FromStrError_InvalidLength, reads |-> {}]
    ELSE HexStringN_from_str_loop(s, n, 0, <<>>, {})

\* the loop `while let Some(a) = bytes.next()`
RECURSIVE HexString_from_str_loop(_, _, _, _)
HexString_from_str_loop(s, pos, out, seen) ==
    IF pos >= Len(s) THEN [ret |-> Ok(out), reads |-> seen]
    ELSE IF pos + 1 >= Len(s) THEN [ret |-> Panic, reads |-> seen \cup {pos}]
    ELSE LET a == s[pos + 1]
             b == s[pos + 2]
             v == from_hex(<<a, b>>)
         IN  IF v = None
             THEN [ret |-> FromStrError_InvalidCharacter, reads |-> seen \cup {pos, pos + 1}]
             ELSE HexString_from_str_loop(s, pos + 2, Append(out, v[1]),
                                          seen \cup {pos, pos + 1})

HexString_from_str(tag, s) ==
    IF Len(s) % 2 # 0
    THEN [ret |-> FromStrError_InvalidLength, reads |-> {}]
    ELSE HexString_from_str_loop(s, 0, <<>>, {})

----------------------------------------------------------------------------
(* error/error.rs: Error<T, E>, an error kind together with the input, and  *)
(* impl_h! TryFrom<&str> / TryFrom<String>, which build it.                 *)

\* Error::new keeping the kind and dropping the input
Error_new_without_input(inner, kind) == [tag |-> "Error", inner |-> <<>>, kind |-> kind]

\* Error::new(inner, kind): Self { inner, kind }
Error_new(inner, kind) == [tag |-> "Error", inner |-> inner, kind |-> kind]
\* Error::kind(&self): self.kind.clone()
Error_kind(self) == self.kind
\* Error::inner(&self): self.inner.borrow()
Error_inner(self) == self.inner
\* Error::into_inner(self): self.inner
Error_into_inner(self) == self.inner

\* value.parse().map_err(|kind| Error::new(value, kind)); `parsed` is what
\* value.parse() gave, a panic of which passes through
map_err_Error_new(value, parsed) ==
    IF parsed.ret.tag \in {"Ok", "panic", "UB"} THEN parsed
    ELSE [ret |-> Error_new(value, parsed.ret), reads |-> parsed.reads]

\* TryFrom<&str> and TryFrom<String> for $owned (hex_string.rs)
HexString_try_from(tag, value) == map_err_Error_new(value, HexString_from_str(tag, value))
\* TryFrom<&str> and TryFrom<String> for $owned<N> (hex_string_n.rs)
HexStringN_try_from(tag, value, n) ==
    map_err_Error_new(value, HexStringN_from_str(tag, value, n))

----------------------------------------------------------------------------
(* PartialEq<str>: comparison of a buffer with a text, pair by pair.        *)
(* A result is [ret |-> Bool(..), reads |-> positions of the text read].    *)

Bool(b) == [tag |-> "bool", value |-> b]

\* hex_array.rs, PartialEq<str> for HexArray<N>: the loop `for x in &self.0`;
\* k is the 1-based position of x
RECURSIVE HexArray_eq_str_loop(_, _, _, _, _, _)
HexArray_eq_str_loop(self, bytes, k, i, j, seen) ==
    IF k > Len(self) THEN [ret |-> Bool(TRUE), reads |-> seen]
    ELSE IF i >= Len(bytes) \/ j >= Len(bytes)
    THEN [ret |-> UB, reads |-> seen \cup {i, j}]
    ELSE LET a == get_unchecked(bytes, i)
             b == get_unchecked(bytes, j)
             y == parse(a, b)
         IN  IF y = None THEN [ret |-> Bool(FALSE), reads |-> seen \cup {i, j}]
             ELSE IF self[k] # y[1] THEN [ret |-> Bool(FALSE), reads |-> seen \cup {i, j}]
             ELSE HexArray_eq_str_loop(self, bytes, k + 1, wrapping_add(i, 2),
                                       wrapping_add(j, 2), seen \cup {i, j})

\* the comparison without the length test
HexArray_eq_str_no_length_test(self, other) ==
    HexArray_eq_str_loop(self, other, 1, 0, 1, {})


HexArray_eq_str(self, other) ==
    IF Len(other) % 2 = 0 /\ Len(other) \div 2 = Len(self)
    THEN HexArray_eq_str_loop(self, other, 1, 0, 1, {})
    ELSE [ret |-> Bool(FALSE), reads |-> {}]

\* hex_vector.rs, PartialEq<str> for HexVector: the loop `for x in &*self.0`
RECURSIVE HexVector_eq_str_loop(_, _, _, _, _, _)
HexVector_eq_str_loop(self, bytes, k, i, j, seen) ==
    IF k > Len(self) THEN [ret |-> Bool(TRUE), reads |-> seen]
    ELSE IF i >= Len(bytes) \/ j >= Len(bytes)
    THEN [ret |-> UB, reads |-> seen \cup {i, j}]
    ELSE LET msb == get_unchecked(bytes, i)
             lsb == get_unchecked(bytes, j)
             converted == parse(msb, lsb)
         IN  IF converted = None THEN [ret |-> Bool(FALSE), reads |-> seen \cup {i, j}]
             ELSE IF self[k] # converted[1]
             THEN [ret |-> Bool(FALSE), reads |-> seen \cup {i, j}]
             ELSE HexVector_eq_str_loop(self, bytes, k + 1, wrapping_add(i, 2),
                                        wrapping_add(j, 2), seen \cup {i, j})

HexVector_eq_str(self, other) ==
    IF Len(other) % 2 = 0 /\ Len(other) \div 2 = Len(self)
    THEN HexVector_eq_str_loop(self, other, 1, 0, 1, {})
    ELSE [ret |-> Bool(FALSE), reads |-> {}]

\* hex_slice.rs, PartialEq<str> for HexSlice: the loop `for x in &self.0`
RECURSIVE HexSlice_eq_str_loop(_, _, _, _, _, _)
HexSlice_eq_str_loop(self, bytes, k, i, j, seen) ==
    IF k > Len(self) THEN [ret |-> Bool(TRUE), reads |-> seen]
    ELSE IF i >= Len(bytes) \/ j >= Len(bytes)
    THEN [ret |-> UB, reads |-> seen \cup {i, j}]
    ELSE LET a == get_unchecked(bytes, i)
             b == get_unchecked(bytes, j)
             y == parse(a, b)
         IN  IF y = None THEN [ret |-> Bool(FALSE), reads |-> seen \cup {i, j}]
             ELSE IF self[k] # y[1] THEN [ret |-> Bool(FALSE), reads |-> seen \cup {i, j}]
             ELSE HexSlice_eq_str_loop(self, bytes, k + 1, wrapping_add(i, 2),
                                       wrapping_add(j, 2), seen \cup {i, j})

HexSlice_eq_str(self, other) ==
    IF Len(other) % 2 = 0 /\ Len(other) \div 2 = Len(self)
    THEN HexSlice_eq_str_loop(self, other, 1, 0, 1, {})
    ELSE [ret |-> Bool(FALSE), reads |-> {}]

----------------------------------------------------------------------------
(* impl_h! PartialEq<str> of the tagged families (hex_string.rs,            *)
(* hex_string_n.rs): the macro parameter $comparison_fn decodes each pair.  *)

\* every invocation passing utils::to_hex_lower as $display_fn
display_fn_of_lower_only(tag) == "to_hex_lower"

\* the $display_fn and $comparison_fn each impl_h! invocation passes
display_fn_of(tag) ==
    CASE tag = "generic" -> "to_hex_lower"
      [] tag = "lower" -> "to_hex_lower"
      [] tag = "upper" -> "to_hex_upper"

comparison_fn_of(tag) ==
    CASE tag = "generic" -> "from_hex"
      [] tag = "lower" -> "from_hex_lower"
      [] tag = "upper" -> "from_hex_upper"

\* a call through $comparison_fn / $display_fn, represented by its name
call_comparison_fn(comparison_fn, p) ==
    CASE comparison_fn = "from_hex" -> from_hex(p)
      [] comparison_fn = "from_hex_lower" -> from_hex_lower(p)
      [] comparison_fn = "from_hex_upper" -> from_hex_upper(p)

call_display_fn(display_fn, v) ==
    CASE display_fn = "to_hex_lower" -> to_hex_lower(v)
      [] display_fn = "to_hex_upper" -> to_hex_upper(v)

\* the loop `for v in &self.0` over the iterator other.bytes(); pos is the
\* iterator's position, next() past the end makes unwrap() panic
RECURSIVE tagged_eq_str_loop(_, _, _, _, _, _)
tagged_eq_str_loop(comparison_fn, self, other, k, pos, seen) ==
    IF k > Len(self) THEN [ret |-> Bool(TRUE), reads |-> seen]
    ELSE IF pos + 1 >= Len(other) THEN [ret |-> Panic, reads |-> seen]
    ELSE LET a == other[pos + 1]
             b == other[pos + 2]
             w == call_comparison_fn(comparison_fn, <<a, b>>)
         IN  IF w = None THEN [ret |-> Bool(FALSE), reads |-> seen \cup {pos, pos + 1}]
             ELSE IF self[k] # w[1]
             THEN [ret |-> Bool(FALSE), reads |-> seen \cup {pos, pos + 1}]
             ELSE tagged_eq_str_loop(comparison_fn, self, other, k + 1, pos + 2,
                                     seen \cup {pos, pos + 1})

\* the owned comparison decoding with utils::from_hex under every tag
owned_eq_str_any_case(tag, self, other) ==
    IF Len(other) % 2 # 0 \/ Len(other) \div 2 # Len(self)
    THEN [ret |-> Bool(FALSE), reads |-> {}]
    ELSE tagged_eq_str_loop("from_hex", self, other, 1, 0, {})

\* PartialEq<str> for $owned: `v if v % 2 != 0 || v / 2 != self.0.len() => false`
owned_eq_str(tag, self, other) ==
    IF Len(other) % 2 # 0 \/ Len(other) \div 2 # Len(self)
    THEN [ret |-> Bool(FALSE), reads |-> {}]
    ELSE tagged_eq_str_loop(comparison_fn_of(tag), self, other, 1, 0, {})

\* PartialEq<str> for $borrowed: two guards, then the same loop
borrowed_eq_str(tag, self, other) ==
    IF Len(other) % 2 # 0 THEN [ret |-> Bool(FALSE), reads |-> {}]
    ELSE IF Len(other) \div 2 # Len(self) THEN [ret |-> Bool(FALSE), reads |-> {}]
    ELSE tagged_eq_str_loop(comparison_fn_of(tag), self, other, 1, 0, {})

----------------------------------------------------------------------------
(* PartialEq between buffers and raw bytes *)

\* <[u8] as PartialEq>::eq: same length and the same byte at every position
RECURSIVE slice_eq_from(_, _, _)
slice_eq_from(a, b, k) ==
    IF k > Len(a) THEN TRUE
    ELSE IF a[k] # b[k] THEN FALSE
    ELSE slice_eq_from(a, b, k + 1)

\* the comparison of the common prefix alone
slice_eq_prefix(a, b) ==
    LET n == IF Len(a) < Len(b) THEN Len(a) ELSE Len(b)
    IN  slice_eq_from(SubSeq(a, 1, n), SubSeq(b, 1, n), 1)

slice_eq(a, b) ==
    IF Len(a) # Len(b) THEN FALSE ELSE slice_eq_from(a, b, 1)

\* hex_array.rs: PartialEq<[u8]> and PartialEq<[u8; N]> for HexArray<N>
HexArray_eq_slice(self, o) == slice_eq(self, o)
\* hex_array.rs: PartialEq<HexSlice> for HexArray<N>: self == other.as_slice()
HexArray_eq_HexSlice(self, o) == HexArray_eq_slice(self, o)
\* hex_array.rs: PartialEq<HexVector> for HexArray<N>: self == other.as_hex_slice()
HexArray_eq_HexVector(self, o) == HexArray_eq_HexSlice(self, o)

\* hex_slice.rs: #[derive(PartialEq)] on HexSlice([u8])
HexSlice_eq(self, o) == slice_eq(self, o)
\* hex_slice.rs: PartialEq<HexArray<N>> for HexSlice: self == other.as_hex_slice()
HexSlice_eq_HexArray(self, o) == HexSlice_eq(self, o)
\* hex_slice.rs: PartialEq<HexVector> for HexSlice: self == other.as_hex_slice()
HexSlice_eq_HexVector(self, o) == HexSlice_eq(self, o)
\* hex_slice.rs: PartialEq<[u8]> and PartialEq<[u8; N]> for HexSlice
HexSlice_eq_slice(self, o) == slice_eq(self, o)

----------------------------------------------------------------------------
(* impl_h! (hex_string.rs, hex_string_n.rs): construction, re-tagging,      *)
(* mutation and display of the tagged values.  "HexString" / "HexStr" name  *)
(* the Vec-backed types and their views, "HexStringN" / "HexStrN" the       *)
(* array-backed ones; the macro text of the conversions is the same.        *)

OwnedFamilies == {"HexString", "HexStringN"}
BorrowedFamilies == {"HexStr", "HexStrN"}
BorrowedOf(family) == IF family = "HexString" THEN "HexStr" ELSE "HexStrN"
OwnedOf(family) == IF family = "HexStr" THEN "HexString" ELSE "HexStringN"

\* self.0.clone(), self.0.to_vec(), (&self.0).into(): a copy, byte by byte
clone(v) == [k \in 1..Len(v) |-> v[k]]

\* a constructor that leaves out the last byte
owned_new_truncated(family, tag, v) == Value(family, tag, SubSeq(v, 1, Len(v) - 1))

\* $owned::new(v): Self(v.into())
owned_new(family, tag, v) == Value(family, tag, v)
\* $borrowed::new(v): a pointer cast, the view shares the bytes of v
borrowed_new(family, tag, v) == Value(family, tag, v)

\* to$other_owned(&self): $other_owned::new(self.0.clone())
owned_to_other(self, other_tag) == owned_new(self.family, other_tag, clone(self.bytes))
\* into_$other_owned(self): $other_owned::new(self.0)
owned_into_other(self, other_tag) == owned_new(self.family, other_tag, self.bytes)
\* From<$owned> for $other_owned: Self::new(value.0)
other_owned_from(value, other_tag) == owned_new(value.family, other_tag, value.bytes)
\* as_$borrowed(&self): self.as_ref(), that is $borrowed::new(&self.0)
owned_as_borrowed(self) == borrowed_new(BorrowedOf(self.family), self.tag, self.bytes)
\* AsRef<$other_borrowed> for $owned: $other_borrowed::new(&self.0)
owned_as_ref_other(self, other_tag) ==
    borrowed_new(BorrowedOf(self.family), other_tag, self.bytes)
\* as_$other_borrowed(&self) of $borrowed: $other_borrowed::new(self)
borrowed_as_other(self, other_tag) == borrowed_new(self.family, other_tag, self.bytes)
\* to_$owned(&self) of $borrowed: $owned::new(&self.0)
borrowed_to_owned(self) == owned_new(OwnedOf(self.family), self.tag, clone(self.bytes))
\* to_$other_owned(&self) of $borrowed: $other_owned::new(&self.0)
borrowed_to_other(self, other_tag) ==
    owned_new(OwnedOf(self.family), other_tag, clone(self.bytes))

\* a push that writes the byte in front
push_front(self, v) == [self EXCEPT !.bytes = <<v>> \o @]

\* push(&mut self, v): self.0.push(v.into())
push(self, v) == [self EXCEPT !.bytes = Append(@, v)]

\* pop(&mut self) -> Option<u8>: self.0.pop(); [self after the call, ret]
pop(self) ==
    IF self.bytes = <<>> THEN [self |-> self, ret |-> None]
    ELSE [self |-> [self EXCEPT !.bytes = SubSeq(@, 1, Len(@) - 1)],
          ret |-> Some(self.bytes[Len(self.bytes)])]

\* Display of $owned and $borrowed: flat_map($display_fn) over the bytes
RECURSIVE flat_map_display_fn(_, _)
flat_map_display_fn(display_fn, bytes) ==
    IF bytes = <<>> THEN <<>>
    ELSE call_display_fn(display_fn, Head(bytes))
             \o flat_map_display_fn(display_fn, Tail(bytes))

\* Display writing uppercase for every tag
tagged_fmt_upper(self) == flat_map_display_fn("to_hex_upper", self.bytes)

tagged_fmt(self) == flat_map_display_fn(display_fn_of(self.tag), self.bytes)

\* Display for HexArray<N> (hex_array.rs) and for HexVector (hex_vector.rs):
\* Display::fmt(&self.to_lower(), f)
HexArray_fmt(self) == to_lower(self.bytes)
HexVector_fmt(self) == to_lower(self.bytes)

----------------------------------------------------------------------------
(* The state machine *)

\* the case policy a tag stands for
TagPolicy(tag) ==
    CASE tag = "generic" -> "any"
      [] tag = "lower" -> "lower"
      [] tag = "upper" -> "upper"

\* a fresh bench holds either a text the caller supplies, or a buffer the
\* caller builds from bytes (HexSlice::new / HexVector::new / HexArray::new)
Init ==
    /\ op = "init"
    /\ N = 0
    /\ policy = "none"
    /\ ret = NoRet
    /\ reads = {}
    /\ val = NoVal
    /\ peer = NoVal
    /\ orig = <<>>
    /\ hops = 0
    /\ \/ /\ text \in Texts
          /\ text_from = "input"
          /\ buf = <<>>
       \/ /\ buf \in Buffers
          /\ text = <<>>
          /\ text_from = "none"

\* A bench run is: [format the buffer,] then one parsing call.  A further
\* call after a parsing call would only overwrite ret with a value another
\* run already produces, so it is left out.
Running == op \in {"init", "to_lower", "to_upper"}

\* a formatting call on buf; the String returned becomes the text on the bench
Format(name, out) ==
    /\ Running
    /\ op' = name
    /\ text' = out
    /\ text_from' = name
    /\ ret' = [tag |-> "String", value |-> out]
    /\ N' = 0
    /\ policy' = "none"
    /\ reads' = {}
    /\ UNCHANGED buf
    /\ UNCHANGED valvars

Call_to_lower == Format("to_lower", to_lower(buf))
Call_to_upper == Format("to_upper", to_upper(buf))

\* a parsing call on text
Parsed(name, n, pol, r) ==
    /\ Running
    /\ op' = name
    /\ N' = n
    /\ policy' = pol
    /\ ret' = r.ret
    /\ reads' = r.reads
    /\ UNCHANGED <<buf, text, text_from>>
    /\ UNCHANGED valvars

Call_HexArray_try_parse ==
    \E n \in Ns : Parsed("HexArray::try_parse", n, "any", HexArray_try_parse(text, n))
Call_HexArray_try_parse_lower ==
    \E n \in Ns : Parsed("HexArray::try_parse", n, "lower", HexArray_try_parse_lower(text, n))
Call_HexArray_try_parse_upper ==
    \E n \in Ns : Parsed("HexArray::try_parse", n, "upper", HexArray_try_parse_upper(text, n))

Call_HexArray_try_parse_boxed ==
    \E n \in Ns :
        Parsed("HexArray::try_parse_boxed", n, "any", HexArray_try_parse_boxed(text, n))
Call_HexArray_try_parse_lower_boxed ==
    \E n \in Ns :
        Parsed("HexArray::try_parse_boxed", n, "lower", HexArray_try_parse_lower_boxed(text, n))
Call_HexArray_try_parse_upper_boxed ==
    \E n \in Ns :
        Parsed("HexArray::try_parse_boxed", n, "upper", HexArray_try_parse_upper_boxed(text, n))

Call_HexVector_try_parse ==
    Parsed("HexVector::try_parse", 0, "any", HexVector_try_parse(text))
Call_HexVector_try_parse_lower ==
    Parsed("HexVector::try_parse", 0, "lower", HexVector_try_parse_lower(text))
Call_HexVector_try_parse_upper ==
    Parsed("HexVector::try_parse", 0, "upper", HexVector_try_parse_upper(text))

\* "...".parse::<HexStringN<N>>(), ::<HexStringNLower<N>>(), ::<HexStringNUpper<N>>()
Call_HexStringN_from_str ==
    \E tag \in Tags, n \in Ns :
        Parsed("HexStringN::from_str", n, TagPolicy(tag), HexStringN_from_str(tag, text, n))

\* "...".parse::<HexString>(), ::<HexStringLower>(), ::<HexStringUpper>()
Call_HexString_from_str ==
    \E tag \in Tags :
        Parsed("HexString::from_str", 0, TagPolicy(tag), HexString_from_str(tag, text))

\* HexStringN*::<N>::try_from(text), text a &str or a String
Call_HexStringN_try_from ==
    \E tag \in Tags, n \in Ns :
        Parsed("HexStringN::try_from", n, TagPolicy(tag), HexStringN_try_from(tag, text, n))

\* HexString*::try_from(text), text a &str or a String
Call_HexString_try_from ==
    \E tag \in Tags :
        Parsed("HexString::try_from", 0, TagPolicy(tag), HexString_try_from(tag, text))

\* a formatting call on the buffer an accept-both parse returned, as in
\* tests::big_hex: parsed.to_lower() against v.to_lowercase()
FormatParsed(name, out) ==
    /\ op \in {"HexArray::try_parse", "HexArray::try_parse_boxed", "HexVector::try_parse"}
    /\ policy = "any"
    /\ ret.tag = "Ok"
    /\ op' = name
    /\ buf' = ret.value
    /\ ret' = [tag |-> "String", value |-> out]
    /\ reads' = {}
    /\ UNCHANGED <<N, text, text_from, policy>>
    /\ UNCHANGED valvars

Call_parsed_to_lower == FormatParsed("parsed.to_lower", to_lower(ret.value))
Call_parsed_to_upper == FormatParsed("parsed.to_upper", to_upper(ret.value))

\* a constructor call on buf
Built(name, v) ==
    /\ Running
    /\ op' = name
    /\ ret' = v
    /\ N' = Len(buf)
    /\ policy' = "none"
    /\ reads' = {}
    /\ UNCHANGED <<buf, text, text_from>>
    /\ UNCHANGED valvars

Call_HexArray_new == Built("HexArray::new", HexArray_new(buf))
Call_HexArray_new_boxed == Built("HexArray::new_boxed", HexArray_new_boxed(buf))

\* let v: $owned = text.parse()?; v == *text, under the equality with text
\* of the type parsed into
Call_parsed_eq_str ==
    \E tag \in Tags :
        /\ op \in {"HexStringN::from_str", "HexString::from_str"}
        /\ TagPolicy(tag) = policy
        /\ ret.tag = "Ok"
        /\ op' = "parsed == str"
        /\ buf' = ret.value
        /\ LET r == owned_eq_str(tag, ret.value, text)
           IN  ret' = r.ret /\ reads' = r.reads
        /\ UNCHANGED <<N, text, text_from, policy>>
        /\ UNCHANGED valvars

Next ==
    \/ Call_to_lower
    \/ Call_to_upper
    \/ Call_HexArray_try_parse
    \/ Call_HexArray_try_parse_lower
    \/ Call_HexArray_try_parse_upper
    \/ Call_HexArray_try_parse_boxed
    \/ Call_HexArray_try_parse_lower_boxed
    \/ Call_HexArray_try_parse_upper_boxed
    \/ Call_HexVector_try_parse
    \/ Call_HexVector_try_parse_lower
    \/ Call_HexVector_try_parse_upper
    \/ Call_HexStringN_from_str
    \/ Call_HexString_from_str
    \/ Call_HexStringN_try_from
    \/ Call_HexString_try_from
    \/ Call_parsed_to_lower
    \/ Call_parsed_to_upper
    \/ Call_HexArray_new
    \/ Call_HexArray_new_boxed
    \/ Call_parsed_eq_str

Spec == Init /\ [][Next]_vars

----------------------------------------------------------------------------
(* The comparison bench: a buffer built from `buf` is compared with the     *)
(* text `text`, or with a second buffer or byte array built from `peer`.    *)

\* 0x0a 0x9f 0xaf: "0a", "9F", "aF" over CoreChars, a lowercase letter, an
\* uppercase letter, and both
EqBytes == {10, 159, 175}

\* the empty buffer, each one-byte buffer, and two-byte buffers among which
\* the documentation's [0x01, 0xde] and [0x1a, 0x2b]
EqBuffers ==
    SeqsUpTo(EqBytes, 1)
        \cup { <<10, 159>>, <<159, 175>>, <<175, 10>>, <<10, 10>>, <<1, 222>>, <<26, 43>> }

RawBytes(b) == Value("[u8]", "none", b)

InitEq ==
    /\ op = "init"
    /\ N = 0
    /\ policy = "none"
    /\ ret = NoRet
    /\ reads = {}
    /\ val = NoVal
    /\ orig = <<>>
    /\ hops = 0
    /\ buf \in EqBuffers
    /\ \/ /\ text \in Texts
          /\ text_from = "input"
          /\ peer = NoVal
       \/ /\ text = <<>>
          /\ text_from = "none"
          /\ peer \in {RawBytes(b) : b \in EqBuffers}

\* `left == text`, left being a buffer of the given family and tag over buf
EqStr(name, family, tag, r) ==
    /\ op = "init"
    /\ text_from = "input"
    /\ op' = name
    /\ val' = Value(family, tag, buf)
    /\ N' = Len(buf)
    /\ policy' = TagPolicy(tag)
    /\ ret' = r.ret
    /\ reads' = r.reads
    /\ UNCHANGED <<buf, text, text_from, peer, orig, hops>>

Call_HexArray_eq_str == EqStr("== str", "HexArray", "generic", HexArray_eq_str(buf, text))
Call_HexVector_eq_str == EqStr("== str", "HexVector", "generic", HexVector_eq_str(buf, text))
Call_HexSlice_eq_str == EqStr("== str", "HexSlice", "generic", HexSlice_eq_str(buf, text))

\* HexString* == str and HexStringN* == str: one macro text, "HexString"
\* names the owned type of either family
Call_owned_eq_str ==
    \E tag \in Tags : EqStr("== str", "HexString", tag, owned_eq_str(tag, buf, text))

\* HexStr* == str and HexStrN* == str, "HexStr" names the borrowed view of
\* either family
Call_borrowed_eq_str ==
    \E tag \in Tags : EqStr("== str", "HexStr", tag, borrowed_eq_str(tag, buf, text))

\* `left == right`, both built from bytes
EqBytesCall(lfamily, rfamily, r) ==
    /\ op = "init"
    /\ peer.family = "[u8]"
    /\ op' = "== bytes"
    /\ val' = Value(lfamily, "generic", buf)
    /\ peer' = Value(rfamily, "generic", peer.bytes)
    /\ N' = Len(buf)
    /\ policy' = "none"
    /\ ret' = Bool(r)
    /\ reads' = {}
    /\ UNCHANGED <<buf, text, text_from, orig, hops>>

\* HexArray<N> == [u8; N]: the type fixes the length of the right side
Call_HexArray_eq_array ==
    /\ Len(peer.bytes) = Len(buf)
    /\ EqBytesCall("HexArray", "[u8; N]", HexArray_eq_slice(buf, peer.bytes))
Call_HexArray_eq_slice ==
    EqBytesCall("HexArray", "[u8]", HexArray_eq_slice(buf, peer.bytes))
Call_HexArray_eq_HexSlice ==
    EqBytesCall("HexArray", "HexSlice", HexArray_eq_HexSlice(buf, peer.bytes))
Call_HexArray_eq_HexVector ==
    EqBytesCall("HexArray", "HexVector", HexArray_eq_HexVector(buf, peer.bytes))
Call_HexSlice_eq_HexArray ==
    EqBytesCall("HexSlice", "HexArray", HexSlice_eq_HexArray(buf, peer.bytes))
Call_HexSlice_eq_HexVector ==
    EqBytesCall("HexSlice", "HexVector", HexSlice_eq_HexVector(buf, peer.bytes))
Call_HexSlice_eq_slice ==
    EqBytesCall("HexSlice", "[u8]", HexSlice_eq_slice(buf, peer.bytes))

NextEq ==
    \/ Call_HexArray_eq_str
    \/ Call_HexVector_eq_str
    \/ Call_HexSlice_eq_str
    \/ Call_owned_eq_str
    \/ Call_borrowed_eq_str
    \/ Call_HexArray_eq_array
    \/ Call_HexArray_eq_slice
    \/ Call_HexArray_eq_HexSlice
    \/ Call_HexArray_eq_HexVector
    \/ Call_HexSlice_eq_HexArray
    \/ Call_HexSlice_eq_HexVector
    \/ Call_HexSlice_eq_slice

SpecEq == InitEq /\ [][NextEq]_vars

----------------------------------------------------------------------------
(* The bench of the tagged values: a value `val` is re-tagged, mutated and  *)
(* displayed; `peer` is the source of the last conversion as the call left  *)
(* it, `orig` the bytes at the start of the current run of conversions.     *)

\* the longest run of conversions followed
MaxHops == 2

TagBuffers == SeqsUpTo(SampleBytes, MaxBufLen) \cup { <<1, 222>> }

InitTag ==
    /\ op = "init"
    /\ N = 0
    /\ policy = "none"
    /\ ret = NoRet
    /\ reads = {}
    /\ text = <<>>
    /\ text_from = "none"
    /\ buf = <<>>
    /\ peer = NoVal
    /\ hops = 0
    /\ \E b \in TagBuffers :
          /\ orig = b
          /\ \/ \E family \in OwnedFamilies, tag \in Tags : val = owned_new(family, tag, b)
             \/ val = Value("HexArray", "generic", b)
             \/ val = Value("HexVector", "generic", b)

IsOwned == val.family \in OwnedFamilies
IsBorrowed == val.family \in BorrowedFamilies

\* a conversion: `result` is the value returned, `source` the value
\* converted as the call leaves it
Retag(name, result, source) ==
    /\ hops < MaxHops
    /\ op' = name
    /\ val' = result
    /\ peer' = source
    /\ hops' = hops + 1
    /\ ret' = NoRet
    /\ UNCHANGED <<N, buf, text, text_from, policy, reads, orig>>

Call_owned_to_other ==
    \E t \in Tags \ {val.tag} : IsOwned /\ Retag("to", owned_to_other(val, t), val)
Call_owned_into_other ==
    \E t \in Tags \ {val.tag} : IsOwned /\ Retag("into", owned_into_other(val, t), Moved)
Call_other_owned_from ==
    \E t \in Tags \ {val.tag} : IsOwned /\ Retag("from", other_owned_from(val, t), Moved)
Call_owned_as_borrowed ==
    IsOwned /\ Retag("as", owned_as_borrowed(val), val)
Call_owned_as_ref_other ==
    \E t \in Tags \ {val.tag} : IsOwned /\ Retag("as", owned_as_ref_other(val, t), val)
Call_borrowed_as_other ==
    \E t \in Tags \ {val.tag} : IsBorrowed /\ Retag("as", borrowed_as_other(val, t), val)
Call_borrowed_to_owned ==
    IsBorrowed /\ Retag("to", borrowed_to_owned(val), val)
Call_borrowed_to_other ==
    \E t \in Tags \ {val.tag} : IsBorrowed /\ Retag("to", borrowed_to_other(val, t), val)

\* a mutation of a Vec-backed buffer starts a new run of conversions
Mutate(name, v, result, r) ==
    /\ val.family \in {"HexString", "HexVector"}
    /\ op' = name
    /\ val' = result
    /\ peer' = val
    /\ orig' = result.bytes
    /\ hops' = 0
    /\ ret' = r
    /\ buf' = v
    /\ UNCHANGED <<N, text, text_from, policy, reads>>

\* HexString*::push(v), and as_mut_vec().push(v) of HexVector
Call_push ==
    \E v \in SampleBytes :
        /\ Len(val.bytes) < MaxBufLen
        /\ Mutate("push", <<v>>, push(val, v), NoRet)

\* HexString*::pop(), and as_mut_vec().pop() of HexVector
Call_pop == Mutate("pop", <<>>, pop(val).self, [tag |-> "Option", value |-> pop(val).ret])

\* to_string(): the Display text of val
Displayed(out) ==
    /\ op # "Display"
    /\ op' = "Display"
    /\ ret' = [tag |-> "String", value |-> out]
    /\ UNCHANGED <<N, buf, text, text_from, policy, reads, val, peer, orig, hops>>

Call_tagged_fmt ==
    /\ val.family \in OwnedFamilies \cup BorrowedFamilies
    /\ Displayed(tagged_fmt(val))
Call_HexArray_fmt == val.family = "HexArray" /\ Displayed(HexArray_fmt(val))
Call_HexVector_fmt == val.family = "HexVector" /\ Displayed(HexVector_fmt(val))

\* let s = val.to_string(); val == *s: val is compared with the display text
\* the last call returned
Call_displayed_eq_str ==
    /\ op = "Display"
    /\ val.family \in OwnedFamilies \cup BorrowedFamilies
    /\ op' = "displayed == str"
    /\ ret' = IF IsOwned THEN owned_eq_str(val.tag, val.bytes, ret.value).ret
              ELSE borrowed_eq_str(val.tag, val.bytes, ret.value).ret
    /\ UNCHANGED <<N, buf, text, text_from, policy, reads, val, peer, orig, hops>>

\* val.to_string().parse::<$owned>(), into the type of val
Call_displayed_parse ==
    /\ op = "Display"
    /\ IsOwned
    /\ op' = "displayed.parse"
    /\ ret' = IF val.family = "HexString" THEN HexString_from_str(val.tag, ret.value).ret
              ELSE HexStringN_from_str(val.tag, ret.value, Len(val.bytes)).ret
    /\ UNCHANGED <<N, buf, text, text_from, policy, reads, val, peer, orig, hops>>

NextTag ==
    \/ Call_owned_to_other
    \/ Call_owned_into_other
    \/ Call_other_owned_from
    \/ Call_owned_as_borrowed
    \/ Call_owned_as_ref_other
    \/ Call_borrowed_as_other
    \/ Call_borrowed_to_owned
    \/ Call_borrowed_to_other
    \/ Call_push
    \/ Call_pop
    \/ Call_tagged_fmt
    \/ Call_HexArray_fmt
    \/ Call_HexVector_fmt
    \/ Call_displayed_eq_str
    \/ Call_displayed_parse

SpecTag == InitTag /\ [][NextTag]_vars

----------------------------------------------------------------------------
(* The codec bench: one call of a function of utils.rs, on every pair of    *)
(* bytes (in `text`) or on every byte (the one byte of `buf`).              *)

InitCodec ==
    /\ op = "init"
    /\ N = 0
    /\ policy = "none"
    /\ ret = NoRet
    /\ reads = {}
    /\ val = NoVal
    /\ peer = NoVal
    /\ orig = <<>>
    /\ hops = 0
    /\ \/ /\ text \in [1..2 -> U8]
          /\ text_from = "input"
          /\ buf = <<>>
       \/ /\ buf \in [1..1 -> U8]
          /\ text = <<>>
          /\ text_from = "none"

\* a decoder called on the pair in text
Decoded(name, pol, r) ==
    /\ op = "init"
    /\ text_from = "input"
    /\ op' = name
    /\ policy' = pol
    /\ ret' = [tag |-> "Option", value |-> r]
    /\ UNCHANGED <<N, buf, text, text_from, reads, valvars>>

Call_from_hex == Decoded("from_hex", "any", from_hex(text))
Call_from_hex_lower == Decoded("from_hex", "lower", from_hex_lower(text))
Call_from_hex_upper == Decoded("from_hex", "upper", from_hex_upper(text))

\* an encoder called on the byte in buf; the helper's unreachable!() panics
Encoded(name, pol, r) ==
    /\ op = "init"
    /\ Len(buf) = 1
    /\ op' = name
    /\ policy' = pol
    /\ ret' = IF r[1] = -1 \/ r[2] = -1 THEN Panic ELSE [tag |-> "[u8; 2]", value |-> r]
    /\ UNCHANGED <<N, buf, text, text_from, reads, valvars>>

Call_to_hex_lower == Encoded("to_hex", "lower", to_hex_lower(buf[1]))
Call_to_hex_upper == Encoded("to_hex", "upper", to_hex_upper(buf[1]))

NextCodec ==
    \/ Call_from_hex
    \/ Call_from_hex_lower
    \/ Call_from_hex_upper
    \/ Call_to_hex_lower
    \/ Call_to_hex_upper

SpecCodec == InitCodec /\ [][NextCodec]_vars

----------------------------------------------------------------------------
(* Vocabulary of the properties *)

\* the hex digits in value order: "0123456789abcdef" and "0123456789ABCDEF"
LowerDigits == <<48, 49, 50, 51, 52, 53, 54, 55, 56, 57, 97, 98, 99, 100, 101, 102>>
UpperDigits == <<48, 49, 50, 51, 52, 53, 54, 55, 56, 57, 65, 66, 67, 68, 69, 70>>

IsLowerDigit(c) == \E v \in 1..16 : LowerDigits[v] = c
IsUpperDigit(c) == \E v \in 1..16 : UpperDigits[v] = c
IsLowerLetter(c) == \E v \in 11..16 : LowerDigits[v] = c
IsUpperLetter(c) == \E v \in 11..16 : UpperDigits[v] = c

\* a character a case policy accepts, and the nibble it stands for
Accepted(pol, c) ==
    \/ pol \in {"any", "lower"} /\ IsLowerDigit(c)
    \/ pol \in {"any", "upper"} /\ IsUpperDigit(c)
NibbleOf(c) == (CHOOSE v \in 1..16 : LowerDigits[v] = c \/ UpperDigits[v] = c) - 1

\* pair number k (0-based) of a text
Hi(s, k) == s[2 * k + 1]
Lo(s, k) == s[2 * k + 2]
Pairs(s) == 0..(Len(s) \div 2 - 1)
PairDecodes(pol, s, k) == Accepted(pol, Hi(s, k)) /\ Accepted(pol, Lo(s, k))
PairValue(s, k) == NibbleOf(Hi(s, k)) * 16 + NibbleOf(Lo(s, k))
AllDecode(pol, s) == \A k \in Pairs(s) : PairDecodes(pol, s, k)
DecodedBytes(s) == [k \in 1..(Len(s) \div 2) |-> PairValue(s, k - 1)]

\* the conversion function the entry point of a case policy passes on, and
\* the pairs of a text that function returns None for
ConversionFnOf(pol) ==
    CASE pol = "any" -> "parse" [] pol = "lower" -> "parse_lower" [] pol = "upper" -> "parse_upper"
Undecodable(pol, s, k) == call_conversion_fn(ConversionFnOf(pol), Hi(s, k), Lo(s, k)) = None
HasUndecodable(pol, s) == \E k \in Pairs(s) : Undecodable(pol, s, k)
FirstUndecodable(pol, s) ==
    CHOOSE k \in Pairs(s) :
        /\ Undecodable(pol, s, k)
        /\ \A m \in 0..(k - 1) : ~Undecodable(pol, s, m)

IsFormatted == text_from \in {"to_lower", "to_upper"}
ArrayParse == op \in {"HexArray::try_parse", "HexArray::try_parse_boxed"}
VectorParse == op = "HexVector::try_parse"
StringNParse == op = "HexStringN::from_str"
StringParse == op = "HexString::from_str"

----------------------------------------------------------------------------
(* C1 .. C10 *)

\* C1: round trip.  Parsing, with the accept-both-cases policy, the lowercase
\* or the uppercase hex text of a buffer B succeeds and yields exactly B, for
\* the variable-length parse and for the fixed-length parse with N = Len(B).
C1_RoundTrip ==
    (IsFormatted /\ policy = "any") =>
        /\ VectorParse => ret = Ok(buf)
        /\ (ArrayParse /\ N = Len(buf)) => ret = Ok(buf)

\* the uppercase text "01DE" of [0x01, 0xde] was parsed back by the
\* fixed-length parse
C1_Witness ==
    /\ text_from = "to_upper"
    /\ op = "HexArray::try_parse"
    /\ policy = "any"
    /\ buf = <<1, 222>>
    /\ N = 2
    /\ text = <<48, 49, 68, 69>>
    /\ ret = Ok(<<1, 222>>)

C3_LengthFirst ==
    (ArrayParse /\ Len(text) # 2 * N) =>
        /\ ret = HexArrayError_InvalidLength(2 * N, Len(text))
        /\ reads = {}

\* "ggg", of length 2N + 1 and all of it invalid, parsed into HexArray<1>
C3_Witness ==
    /\ op = "HexArray::try_parse"
    /\ N = 1
    /\ text = <<103, 103, 103>>
    /\ ret = HexArrayError_InvalidLength(2, 3)

C5_AsStated ==
    (ArrayParse /\ Len(text) = 2 * N /\ HasUndecodable(policy, text)) =>
        LET k == FirstUndecodable(policy, text)
        IN  ret = InvalidByte(Hi(text, k), Lo(text, k), k)

\* C5, amended: a fixed-length parse of a text of length 2N whose first
\* undecodable pair is pair k fails with the invalid-character error carrying
\* the two bytes of the pair and index = 2k, the position of the pair's first
\* character in the text.
C5_ArrayInvalidByte ==
    (ArrayParse /\ Len(text) = 2 * N /\ HasUndecodable(policy, text)) =>
        LET k == FirstUndecodable(policy, text)
        IN  ret = InvalidByte(Hi(text, k), Lo(text, k), 2 * k)

\* "09gg" parsed into HexArray<2>: pair 1 fails, index 2 is reported
C5_Witness ==
    /\ op = "HexArray::try_parse"
    /\ N = 2
    /\ text = <<48, 57, 103, 103>>
    /\ ret = InvalidByte(103, 103, 2)

\* C6: a variable-length parse of an even-length text whose first undecodable
\* pair is pair k fails with the invalid-character error carrying
\* msb = s[2k], lsb = s[2k+1] and index = 2k, also when only the low character
\* of the pair is invalid.
C6_VectorInvalidByte ==
    (VectorParse /\ Len(text) % 2 = 0 /\ HasUndecodable(policy, text)) =>
        LET k == FirstUndecodable(policy, text)
        IN  ret = InvalidByte(Hi(text, k), Lo(text, k), 2 * k)

\* "009g": only the low character of pair 1 is invalid
C6_Witness ==
    /\ op = "HexVector::try_parse"
    /\ policy = "any"
    /\ text = <<48, 48, 57, 103>>
    /\ ret = InvalidByte(57, 103, 2)

\* the call of the state, made again on another text
SameCallOn(t) ==
    CASE op = "HexArray::try_parse" -> array_try_parse(t, ConversionFnOf(policy), N).ret
      [] op = "HexArray::try_parse_boxed" -> array_try_parse_boxed(t, ConversionFnOf(policy), N).ret
      [] op = "HexVector::try_parse" -> vector_try_parse(t, ConversionFnOf(policy)).ret

\* C7: first-failure reporting.  For a text of well-formed length the
\* invalid-character error describes the leftmost undecodable pair; nothing
\* after that pair is read, and replacing any later character changes nothing
\* of the result.  "zz" reports 'z','z' at index 0, "11zz" reports index 2.
C7_FirstFailure ==
    (((ArrayParse /\ Len(text) = 2 * N) \/ (VectorParse /\ Len(text) % 2 = 0))
        /\ HasUndecodable(policy, text)) =>
        LET k == FirstUndecodable(policy, text)
        IN  /\ ret.tag = "InvalidByte"
            /\ ret.msb = Hi(text, k) /\ ret.lsb = Lo(text, k)
            /\ ret.index \div 2 = k
            /\ reads = 0..(2 * k + 1)
            /\ \A pos \in (2 * k + 3)..Len(text) : \A c \in EdgeChars :
                  SameCallOn([text EXCEPT ![pos] = c]) = ret
            /\ text = <<122, 122>> => ret = InvalidByte(122, 122, 0)
            /\ text = <<49, 49, 122, 122>> => ret = InvalidByte(122, 122, 2)

\* "g0gg": both pairs are undecodable, the first one is reported
C7_Witness ==
    /\ op = "HexVector::try_parse"
    /\ policy = "any"
    /\ text = <<103, 48, 103, 103>>
    /\ ret = InvalidByte(103, 48, 0)
    /\ reads = {0, 1}

\* C8: case rejection by the parse entry points.  On a text of well-formed
\* length, try_parse_lower fails with the invalid-character error when the
\* text holds a character in 'A'..'F', try_parse_upper when it holds one in
\* 'a'..'f', and try_parse accepts any mix of cases; "Aa" yields 0xAA.
C8_CaseRejection ==
    ((ArrayParse /\ Len(text) = 2 * N) \/ (VectorParse /\ Len(text) % 2 = 0)) =>
        /\ (policy = "lower" /\ \E pos \in 1..Len(text) : IsUpperLetter(text[pos])) =>
              ret.tag = "InvalidByte"
        /\ (policy = "upper" /\ \E pos \in 1..Len(text) : IsLowerLetter(text[pos])) =>
              ret.tag = "InvalidByte"
        /\ (policy = "any" /\ \A pos \in 1..Len(text) :
                                 IsLowerDigit(text[pos]) \/ IsUpperDigit(text[pos])) =>
              ret = Ok(DecodedBytes(text))
        /\ (policy = "any" /\ text = <<65, 97>>) => ret = Ok(<<170>>)

\* try_parse_lower on "AA"
C8_Witness ==
    /\ op = "HexArray::try_parse"
    /\ policy = "lower"
    /\ N = 1
    /\ text = <<65, 65>>
    /\ ret = InvalidByte(65, 65, 0)

\* C9: the string parse of a lower-tagged buffer (HexStringLower,
\* HexStringNLower) fails with the invalid-character error on a text of
\* well-formed length holding an uppercase hex letter, and the string parse of
\* an upper-tagged buffer (HexStringUpper, HexStringNUpper) fails with it on a
\* text holding a lowercase hex letter.
C9_TaggedParse ==
    ((StringNParse /\ Len(text) = 2 * N) \/ (StringParse /\ Len(text) % 2 = 0)) =>
        /\ (policy = "lower" /\ \E pos \in 1..Len(text) : IsUpperLetter(text[pos])) =>
              ret = FromStrError_InvalidCharacter
        /\ (policy = "upper" /\ \E pos \in 1..Len(text) : IsLowerLetter(text[pos])) =>
              ret = FromStrError_InvalidCharacter

\* C10: format output.  The lowercase text of a buffer holds only characters
\* of 0-9a-f, the uppercase text only characters of 0-9A-F; both have exactly
\* two characters per byte and nothing else, characters 2k and 2k+1 being the
\* digits of the high and of the low nibble of byte k.
C10_Format ==
    (op \in {"to_lower", "to_upper"}) =>
        LET digits == IF op = "to_lower" THEN LowerDigits ELSE UpperDigits
        IN  /\ ret = [tag |-> "String", value |-> text]
            /\ Len(text) = 2 * Len(buf)
            /\ \A pos \in 1..Len(text) : \E v \in 1..16 : text[pos] = digits[v]
            /\ \A k \in 1..Len(buf) :
                  /\ text[2 * k - 1] = digits[(buf[k] \div 16) + 1]
                  /\ text[2 * k] = digits[(buf[k] % 16) + 1]

\* [0x01, 0xde] formatted in uppercase: "01DE"
C10_Witness ==
    /\ op = "to_upper"
    /\ buf = <<1, 222>>
    /\ text = <<48, 49, 68, 69>>

----------------------------------------------------------------------------
(* C11 .. C20 *)

EqWithStr == op = "== str"
EqWithBytes == op = "== bytes"
GenericBuffer == val.tag = "generic"

\* pair k of the text s decodes, under the policy, to byte k of b
PairMatches(pol, b, s, k) == PairDecodes(pol, s, k) /\ PairValue(s, k) = b[k + 1]
\* the text s is the hex text, under the policy, of the bytes b
TextMatches(pol, b, s) ==
    /\ Len(s) = 2 * Len(b)
    /\ \A k \in Pairs(s) : PairMatches(pol, b, s, k)
\* the first pair of s, of the right length, that is invalid or mismatches b
FirstNonMatch(pol, b, s) ==
    CHOOSE k \in Pairs(s) :
        /\ ~PairMatches(pol, b, s, k)
        /\ \A m \in 0..(k - 1) : PairMatches(pol, b, s, m)

\* C11: equality of a generic-policy buffer with a text.  buffer == s is a
\* boolean (never an error, a panic or an out-of-bounds read), true exactly
\* when Len(s) = 2 * Len(B) and s decodes, with both cases accepted, to B;
\* a text of another length is rejected without being read, and otherwise
\* the comparison reads the text up to the first invalid or mismatching pair
\* and no further.
C11_TextEquality ==
    (EqWithStr /\ GenericBuffer) =>
        /\ ret.tag = "bool"
        /\ ret.value <=> (AllDecode("any", text) /\ Len(text) = 2 * Len(val.bytes)
                             /\ DecodedBytes(text) = val.bytes)
        /\ Len(text) # 2 * Len(val.bytes) => (~ret.value /\ reads = {})
        /\ (Len(text) = 2 * Len(val.bytes) /\ ret.value) => reads = 0..(Len(text) - 1)
        /\ (Len(text) = 2 * Len(val.bytes) /\ ~ret.value) =>
              reads = 0..(2 * FirstNonMatch("any", val.bytes, text) + 1)

\* HexArray [0x0a, 0x9f] compared with "0aFF": the second pair mismatches,
\* all four characters were read and the answer is false
C11_Witness ==
    /\ EqWithStr
    /\ val = Value("HexArray", "generic", <<10, 159>>)
    /\ text = <<48, 97, 70, 70>>
    /\ ret = Bool(FALSE)
    /\ reads = {0, 1, 2, 3}

HasUpperLetter(s) == \E p \in 1..Len(s) : IsUpperLetter(s[p])
HasLowerLetter(s) == \E p \in 1..Len(s) : IsLowerLetter(s[p])

\* a comparison of a tagged buffer (HexString*, HexStringN*) or of its
\* borrowed view with a text
TaggedEqWithStr == EqWithStr /\ val.family \in {"HexString", "HexStr"}

\* C12 as stated: a buffer holding [0x01, 0xde] compares equal to "01de"
\* under every policy.
C12_AsStated ==
    (TaggedEqWithStr /\ val.bytes = <<1, 222>> /\ text = <<48, 49, 100, 101>>) =>
        ret = Bool(TRUE)

\* C12, amended: case policy in text equality.  A buffer is equal to a text
\* exactly when the text has twice its length and every pair decodes, under
\* the policy of the buffer's tag, to the byte at its position.  So
\* [0x01, 0xde] equals "01de" under the generic and the lower policy and not
\* under the upper one, equals "01DE" under the generic and the upper policy
\* and not under the lower one; a lower-tagged buffer or view is unequal to
\* every text holding an uppercase hex letter, an upper-tagged one to every
\* text holding a lowercase hex letter.
C12_CasePolicy ==
    TaggedEqWithStr =>
        /\ ret.tag = "bool"
        /\ ret.value <=> TextMatches(policy, val.bytes, text)
        /\ (val.bytes = <<1, 222>> /\ text = <<48, 49, 100, 101>>) =>
              (ret.value <=> policy \in {"any", "lower"})
        /\ (val.bytes = <<1, 222>> /\ text = <<48, 49, 68, 69>>) =>
              (ret.value <=> policy \in {"any", "upper"})
        /\ (val.tag = "lower" /\ HasUpperLetter(text)) => ~ret.value
        /\ (val.tag = "upper" /\ HasLowerLetter(text)) => ~ret.value

\* the lower-tagged view of [0x01, 0xde] compared with "01DE": not equal
C12_Witness ==
    /\ EqWithStr
    /\ val = Value("HexStr", "lower", <<1, 222>>)
    /\ text = <<48, 49, 68, 69>>
    /\ ret = Bool(FALSE)

SameBytes(a, b) == Len(a) = Len(b) /\ \A k \in 1..Len(a) : a[k] = b[k]

\* C13: cross-type buffer equality.  A fixed buffer compared with a raw byte
\* array, a byte slice, a borrowed view or a variable-length buffer gives a
\* boolean, true exactly when the other side has the same length and the
\* same byte at every position (a different length gives false); and the
\* comparison is symmetric, view == fixed buffer answering as
\* fixed buffer == view does on the same two operands.
C13_CrossTypeEquality ==
    EqWithBytes =>
        /\ ret.tag = "bool"
        /\ ret.value <=> SameBytes(val.bytes, peer.bytes)
        /\ Len(val.bytes) # Len(peer.bytes) => ret = Bool(FALSE)
        /\ (val.family = "HexArray" /\ peer.family = "HexSlice") =>
              ret.value = HexSlice_eq_HexArray(peer.bytes, val.bytes)
        /\ (val.family = "HexSlice" /\ peer.family = "HexArray") =>
              ret.value = HexArray_eq_HexSlice(peer.bytes, val.bytes)

\* HexArray [0x0a] compared with the view of [0x0a, 0x9f], a longer buffer
\* that begins with the same byte: false
C13_Witness ==
    /\ EqWithBytes
    /\ val = Value("HexArray", "generic", <<10>>)
    /\ peer = Value("HexSlice", "generic", <<10, 159>>)
    /\ ret = Bool(FALSE)

\* C14: empty input.  Parsing the empty text into a variable-length buffer
\* succeeds with the empty buffer; parsing it into a fixed buffer succeeds
\* with the empty buffer when N = 0 and fails with the length error
\* (expected 2N, encountered 0) when N > 0.
C14_EmptyInput ==
    text = <<>> =>
        /\ (VectorParse \/ StringParse) => ret = Ok(<<>>)
        /\ ((ArrayParse \/ StringNParse) /\ N = 0) => ret = Ok(<<>>)
        /\ (ArrayParse /\ N > 0) => ret = HexArrayError_InvalidLength(2 * N, 0)

\* the empty text parsed into a HexVector
C14_Witness ==
    /\ op = "HexVector::try_parse"
    /\ text = <<>>
    /\ text_from = "input"
    /\ ret = Ok(<<>>)
    /\ reads = {}

IsRetag == op \in {"to", "into", "from", "as"}

\* C15: re-tagging never mutates byte content.  After any run of tag
\* conversions (to*, into_*, From, as_*) the value holds exactly the bytes
\* the starting value held, whatever tags and views it went through; a
\* non-consuming conversion (to*, as_*) leaves its source in place with the
\* same bytes, a consuming one (into_*, From) moves it.
C15_Retagging ==
    hops >= 1 =>
        /\ val.bytes = orig
        /\ val.tag \in Tags
        /\ peer.family # "moved" => peer.bytes = orig
        /\ op \in {"to", "as"} => (peer.family # "moved" /\ peer.bytes = val.bytes)
        /\ op \in {"into", "from"} => peer = Moved

\* [0x01, 0xde] after two conversions: re-tagged by value, then viewed
\* through the upper-tagged view
C15_Witness ==
    /\ hops = 2
    /\ op = "as"
    /\ orig = <<1, 222>>
    /\ val = Value("HexStr", "upper", <<1, 222>>)
    /\ peer = Value("HexString", "lower", <<1, 222>>)

\* the hex text of the bytes b written with the given sixteen digits, high
\* nibble first
HexText(digits, b) ==
    [p \in 1..(2 * Len(b)) |->
        IF p % 2 = 1 THEN digits[(b[(p + 1) \div 2] \div 16) + 1]
        ELSE digits[(b[p \div 2] % 16) + 1]]
\* the lowercase form of an uppercase hex letter, any other character itself
FoldCase(c) == IF c \in 65..70 THEN c + 32 ELSE c

\* C16: formatting per tag.  The display text of a generic-tagged and of a
\* lower-tagged buffer or view is the lowercase hex text of its bytes, that
\* of an upper-tagged one the uppercase hex text; so after any re-tagging
\* the display text differs from the lowercase hex text of the starting
\* bytes in the case of the letters a-f only.
C16_DisplayPerTag ==
    op = "Display" =>
        /\ ret.tag = "String"
        /\ val.tag \in {"generic", "lower"} => ret.value = HexText(LowerDigits, val.bytes)
        /\ val.tag = "upper" => ret.value = HexText(UpperDigits, val.bytes)
        /\ Len(ret.value) = 2 * Len(orig)
        /\ \A p \in 1..Len(ret.value) :
              FoldCase(ret.value[p]) = HexText(LowerDigits, orig)[p]

\* [0x01, 0xde], re-tagged to upper, displays as "01DE"
C16_Witness ==
    /\ op = "Display"
    /\ hops = 1
    /\ val = Value("HexString", "upper", <<1, 222>>)
    /\ peer = Value("HexString", "generic", <<1, 222>>)
    /\ ret = [tag |-> "String", value |-> <<48, 49, 68, 69>>]

\* the display text of a value of any family
DisplayOf(v) ==
    CASE v.family = "HexArray" -> HexArray_fmt(v)
      [] v.family = "HexVector" -> HexVector_fmt(v)
      [] OTHER -> tagged_fmt(v)

\* C17: variable-length mutation.  After any sequence of push and pop the
\* hex text of a variable-length buffer is exactly twice as long as its byte
\* count; a push appends to the text the two digits of the pushed byte and
\* nothing else, a pop on a non-empty buffer returns the last byte and cuts
\* the last two characters off the text, leaving the prefix as it was, and a
\* pop on an empty buffer returns nothing and changes nothing.
C17_PushPop ==
    /\ Len(DisplayOf(val)) = 2 * Len(val.bytes)
    /\ op = "push" =>
          /\ Len(buf) = 1
          /\ val.bytes = Append(peer.bytes, buf[1])
          /\ Len(DisplayOf(val)) = Len(DisplayOf(peer)) + 2
          /\ DisplayOf(val) = DisplayOf(peer) \o DisplayOf([val EXCEPT !.bytes = buf])
    /\ (op = "pop" /\ peer.bytes # <<>>) =>
          /\ ret.value = Some(peer.bytes[Len(peer.bytes)])
          /\ Len(DisplayOf(val)) = Len(DisplayOf(peer)) - 2
          /\ DisplayOf(val) = SubSeq(DisplayOf(peer), 1, Len(DisplayOf(peer)) - 2)
    /\ (op = "pop" /\ peer.bytes = <<>>) => (ret.value = None /\ val = peer)

\* 0xff pushed onto the upper-tagged [0x0a]: the text "0A" became "0AFF"
C17_Witness ==
    /\ op = "push"
    /\ peer = Value("HexString", "upper", <<10>>)
    /\ buf = <<255>>
    /\ val = Value("HexString", "upper", <<10, 255>>)
    /\ DisplayOf(val) = <<48, 65, 70, 70>>

\* C18: parse is all-or-nothing.  When a variable-length or a fixed-length
\* parse fails at a pair after the first, the value returned is the error
\* alone: the two bytes of the failing pair and its index, and no field
\* holding the bytes decoded before the failure.
C18_AllOrNothing ==
    ((ArrayParse \/ VectorParse) /\ ret.tag = "InvalidByte" /\ ret.index > 0) =>
        /\ DOMAIN ret = {"tag", "msb", "lsb", "index"}
        /\ ret = InvalidByte(text[ret.index + 1], text[ret.index + 2], ret.index)
        /\ \A m \in 0..(ret.index \div 2 - 1) : ~Undecodable(policy, text, m)

\* "1azz" parsed into a HexVector: 0x1a was decoded, then "zz" failed
C18_Witness ==
    /\ op = "HexVector::try_parse"
    /\ policy = "any"
    /\ text = <<49, 97, 122, 122>>
    /\ ret = InvalidByte(122, 122, 2)

\* C19: byte-pair decode.  For every pair of bytes (hi, lo) in 0..255 and
\* each case policy, the decoder returns nibble(hi) * 16 + nibble(lo), a
\* value in 0..255, when both bytes are hex digits the policy accepts
\* ('0'..'9' as 0..9, 'a'..'f' and / or 'A'..'F' as 10..15), and returns
\* nothing when either byte is anything else; the shift-or the code computes
\* is that multiplication and addition.
C19_PairDecode ==
    op = "from_hex" =>
        /\ (Accepted(policy, text[1]) /\ Accepted(policy, text[2])) =>
              /\ ret.value = Some(NibbleOf(text[1]) * 16 + NibbleOf(text[2]))
              /\ ret.value[1] \in 0..255
        /\ ~(Accepted(policy, text[1]) /\ Accepted(policy, text[2])) => ret.value = None

\* "fF" decoded with both cases accepted: 0xff
C19_Witness ==
    /\ op = "from_hex"
    /\ policy = "any"
    /\ text = <<102, 70>>
    /\ ret.value = Some(255)

\* C20: byte encode is total.  For every byte 0..255 to_hex_lower and
\* to_hex_upper return two ASCII hex digits, the high nibble first, in the
\* case asked for; the unreachable!() branch of the helper is never reached,
\* both nibbles handed to it being in 0..15.
C20_EncodeTotal ==
    op = "to_hex" =>
        /\ ret.tag = "[u8; 2]"
        /\ Shr4(BitAnd(buf[1], 240)) \in 0..15
        /\ BitAnd(buf[1], 15) \in 0..15
        /\ policy = "lower" =>
              ret.value = <<LowerDigits[(buf[1] \div 16) + 1], LowerDigits[(buf[1] % 16) + 1]>>
        /\ policy = "upper" =>
              ret.value = <<UpperDigits[(buf[1] \div 16) + 1], UpperDigits[(buf[1] % 16) + 1]>>

\* 0xff encoded in uppercase: "FF"
C20_Witness ==
    /\ op = "to_hex"
    /\ policy = "upper"
    /\ buf = <<255>>
    /\ ret = [tag |-> "[u8; 2]", value |-> <<70, 70>>]

----------------------------------------------------------------------------
(* C21 .. C30 *)

\* the tag whose policy the last call ran under
TagOf(pol) == CHOOSE t \in Tags : TagPolicy(t) = pol

StringTryFrom == op = "HexString::try_from"
StringNTryFrom == op = "HexStringN::try_from"
\* what the plain string parse of the same type returns for the same text
PlainParse ==
    IF StringTryFrom THEN HexString_from_str(TagOf(policy), text).ret
    ELSE HexStringN_from_str(TagOf(policy), text, N).ret

\* C21: the error carries the source text.  When the conversion of a string
\* (TryFrom<&str>, TryFrom<String>) fails, the error returned holds the
\* input, unchanged, for inner and into_inner to give back, and as its kind
\* exactly the error the plain string parse returns for that input; when the
\* conversion succeeds its result is the plain parse result.
C21_ErrorCarriesInput ==
    (StringTryFrom \/ StringNTryFrom) =>
        /\ PlainParse.tag = "Ok" => ret = PlainParse
        /\ PlainParse.tag # "Ok" =>
              /\ ret.tag = "Error"
              /\ Error_inner(ret) = text
              /\ Error_into_inner(ret) = text
              /\ Error_kind(ret) = PlainParse
              /\ Error_kind(ret) \in {FromStrError_InvalidLength, FromStrError_InvalidCharacter}

\* HexString::try_from("1azz") failed: the error holds "1azz" and the kind
\* InvalidCharacter
C21_Witness ==
    /\ StringTryFrom
    /\ text = <<49, 97, 122, 122>>
    /\ ret = [tag |-> "Error", inner |-> <<49, 97, 122, 122>>,
              kind |-> FromStrError_InvalidCharacter]

\* str::to_lowercase and str::to_uppercase on ASCII text
to_lowercase(s) == [p \in 1..Len(s) |-> IF s[p] \in 65..90 THEN s[p] + 32 ELSE s[p]]
to_uppercase(s) == [p \in 1..Len(s) |-> IF s[p] \in 97..122 THEN s[p] - 32 ELSE s[p]]
\* a character of 0-9a-fA-F
IsHexChar(c) == c \in 48..57 \/ c \in 97..102 \/ c \in 65..70
AllHexEven(s) == Len(s) % 2 = 0 /\ \A p \in 1..Len(s) : IsHexChar(s[p])

\* C22: format of a parse.  An accept-both parse of an even-length text made
\* only of characters of 0-9a-fA-F succeeds (for the fixed-length buffer,
\* when N is half the length) with a buffer of exactly len/2 bytes; the
\* lowercase text of the parsed buffer is the text with every letter
\* lowercased, its uppercase text the text with every letter uppercased.
C22_FormatOfParse ==
    /\ (VectorParse /\ policy = "any" /\ AllHexEven(text)) =>
          ret.tag = "Ok" /\ Len(ret.value) * 2 = Len(text)
    /\ (ArrayParse /\ policy = "any" /\ AllHexEven(text) /\ Len(text) = 2 * N) =>
          ret.tag = "Ok" /\ Len(ret.value) = N
    /\ op = "parsed.to_lower" =>
          /\ AllHexEven(text)
          /\ Len(buf) * 2 = Len(text)
          /\ ret.value = to_lowercase(text)
    /\ op = "parsed.to_upper" =>
          /\ AllHexEven(text)
          /\ Len(buf) * 2 = Len(text)
          /\ ret.value = to_uppercase(text)

\* "0F9a" parsed and written in lowercase: "0f9a"
C22_Witness ==
    /\ op = "parsed.to_lower"
    /\ text = <<48, 70, 57, 97>>
    /\ buf = <<15, 154>>
    /\ ret.value = <<48, 102, 57, 97>>

----------------------------------------------------------------------------
(* Views of a fixed-length buffer.  Two places hold bytes: "val", the array *)
(* inside the buffer `val`, and "buf", the array `buf` the buffer was built *)
(* from.  A reference is the place it points to, its length, the type it is *)
(* seen as and whether it is a &mut.                                        *)

Ref(place, ty, len, mutable) ==
    [tag |-> "ref", place |-> place, ty |-> ty, len |-> len, mutable |-> mutable]

\* the bytes a place holds, given the buffer and the source array
load(v, b, place) == IF place = "val" THEN v.bytes ELSE b

\* `*v = x` inserting a byte at position k
store_insert(bytes, k, x) ==
    SubSeq(bytes, 1, k) \o <<x>> \o SubSeq(bytes, k + 1, Len(bytes))

\* `*v = x` through a &mut to position k of the bytes
store(bytes, k, x) == [bytes EXCEPT ![k + 1] = x]

\* HexArray::as_array(&self): &self.0, of n bytes at place self
HexArray_as_array(self, n) == Ref(self, "[u8; N]", n, FALSE)
\* HexArray::as_mut_array(&mut self): &mut self.0
HexArray_as_mut_array(self, n) == Ref(self, "[u8; N]", n, TRUE)
\* HexArray::as_hex_slice(&self): the pointer of self.0.as_slice() cast
HexArray_as_hex_slice(self, n) == Ref(self, "HexSlice", n, FALSE)

\* as_mut_hex_slice giving a view of the array the buffer was built from
HexArray_as_mut_hex_slice_of_source(self, n) == Ref("buf", "HexSlice", n, TRUE)

\* HexArray::as_mut_hex_slice(&mut self): the pointer of
\* self.0.as_mut_slice() cast
HexArray_as_mut_hex_slice(self, n) == Ref(self, "HexSlice", n, TRUE)

\* HexSlice::new(v): v.as_ref(), HexSlice::new_mut(v): v.as_mut(); for the
\* array v that is AsRef<HexSlice> / AsMut<HexSlice> for [u8; N], the pointer
\* of v.as_slice() cast
HexSlice_new(v, n) == Ref(v, "HexSlice", n, FALSE)
HexSlice_new_mut(v, n) == Ref(v, "HexSlice", n, TRUE)
\* HexSlice::as_slice(&self): &self.0; as_mut_slice(&mut self): &mut self.0
HexSlice_as_slice(self) == Ref(self.place, "[u8]", self.len, FALSE)
HexSlice_as_mut_slice(self) == Ref(self.place, "[u8]", self.len, TRUE)

\* as_$borrowed(&self) and Deref: self.as_ref(), $borrowed::new(&self.0),
\* the pointer of self.0 cast
owned_as_borrowed_ref(self, n) == Ref(self, "HexStrN", n, FALSE)
\* as_mut_$borrowed(&mut self) and DerefMut: self.as_mut(),
\* $borrowed::new_mut(&mut self.0)
owned_as_mut_borrowed(self, n) == Ref(self, "HexStrN", n, TRUE)

ViewBytes == {0, 26, 255}
ViewTexts == { <<>>, <<49, 97>>, <<49, 65, 50, 98>>, <<49, 97, 50>>, <<122, 122>> }

\* let a = [..; N]; let mut v = HexArray::new(a), or $owned::new(a)
InitView ==
    /\ op = "init"
    /\ N \in Ns
    /\ buf \in [1..N -> ViewBytes]
    /\ \/ val = HexArray_new(buf)
       \/ \E tag \in Tags : val = owned_new("HexStringN", tag, buf)
    /\ text \in ViewTexts
    /\ text_from = "none"
    /\ policy = "none"
    /\ ret = NoRet
    /\ reads = {}
    /\ peer = NoVal
    /\ orig = buf
    /\ hops = 0

IsHexArray == val.family = "HexArray"
IsHexStringN == val.family = "HexStringN"

\* a call that returns a reference into `owner`; text_from names the place
\* the call was made on
View(name, owner, reference) ==
    /\ hops < MaxHops
    /\ op' = name
    /\ peer' = reference
    /\ text_from' = owner
    /\ hops' = hops + 1
    /\ orig' = val.bytes
    /\ ret' = NoRet
    /\ UNCHANGED <<N, buf, text, policy, reads, val>>

Call_as_array == IsHexArray /\ View("as_array", "val", HexArray_as_array("val", N))
Call_as_mut_array == IsHexArray /\ View("as_mut_array", "val", HexArray_as_mut_array("val", N))
Call_as_hex_slice == IsHexArray /\ View("as_hex_slice", "val", HexArray_as_hex_slice("val", N))
Call_as_mut_hex_slice ==
    IsHexArray /\ View("as_mut_hex_slice", "val", HexArray_as_mut_hex_slice("val", N))
\* Deref: self.as_hex_slice() for HexArray<N>, self.as_ref() for $owned<N>
Call_deref ==
    \/ IsHexArray /\ View("deref", "val", HexArray_as_hex_slice("val", N))
    \/ IsHexStringN /\ View("deref", "val", owned_as_borrowed_ref("val", N))
\* DerefMut: self.as_mut_hex_slice() for HexArray<N>, self.as_mut() for $owned<N>
Call_deref_mut ==
    \/ IsHexArray /\ View("deref_mut", "val", HexArray_as_mut_hex_slice("val", N))
    \/ IsHexStringN /\ View("deref_mut", "val", owned_as_mut_borrowed("val", N))
\* HexSlice::new(&buf), HexSlice::new_mut(&mut buf)
Call_HexSlice_new == View("HexSlice::new", "buf", HexSlice_new("buf", N))
Call_HexSlice_new_mut == View("HexSlice::new_mut", "buf", HexSlice_new_mut("buf", N))
\* as_slice / as_mut_slice of the hex view at hand
Call_as_slice ==
    /\ peer.tag = "ref" /\ peer.ty = "HexSlice"
    /\ View("as_slice", text_from, HexSlice_as_slice(peer))
Call_as_mut_slice ==
    /\ peer.tag = "ref" /\ peer.ty = "HexSlice" /\ peer.mutable
    /\ View("as_mut_slice", text_from, HexSlice_as_mut_slice(peer))

\* view[k] = x through the mutable reference at hand; an index that is not
\* below the length panics
Call_write ==
    \E k \in 0..MaxN, x \in ViewBytes :
        /\ hops < MaxHops
        /\ peer.tag = "ref" /\ peer.mutable
        /\ k <= peer.len
        /\ op' = "write"
        /\ hops' = hops + 1
        /\ orig' = val.bytes
        /\ reads' = {k}
        /\ IF k < peer.len
           THEN /\ ret' = [tag |-> "written", index |-> k, value |-> x]
                /\ IF peer.place = "val"
                   THEN val' = [val EXCEPT !.bytes = store(val.bytes, k, x)] /\ buf' = buf
                   ELSE buf' = store(buf, k, x) /\ val' = val
           ELSE ret' = Panic /\ UNCHANGED <<val, buf>>
        /\ UNCHANGED <<N, text, text_from, policy, peer>>

\* into_$other_owned(self): the buffer moves into the other tag, every
\* reference into it has ended
Call_fixed_into_other ==
    \E t \in Tags \ {val.tag} :
        /\ IsHexStringN
        /\ hops < MaxHops
        /\ op' = "into"
        /\ val' = owned_into_other(val, t)
        /\ peer' = NoVal
        /\ text_from' = "none"
        /\ hops' = hops + 1
        /\ orig' = val.bytes
        /\ ret' = NoRet
        /\ UNCHANGED <<N, buf, text, policy, reads>>

\* v = text.parse()?: the buffer is replaced when the parse succeeds
Call_fixed_parse ==
    /\ hops < MaxHops
    /\ LET r == IF IsHexArray THEN HexArray_try_parse(text, N)
                ELSE HexStringN_from_str(val.tag, text, N)
       IN  /\ ret' = r.ret
           /\ reads' = r.reads
           /\ val' = IF r.ret.tag = "Ok" THEN Value(val.family, val.tag, r.ret.value)
                     ELSE val
    /\ op' = "parse"
    /\ peer' = NoVal
    /\ text_from' = "none"
    /\ hops' = hops + 1
    /\ orig' = val.bytes
    /\ UNCHANGED <<N, buf, text, policy>>

NextView ==
    \/ Call_as_array
    \/ Call_as_mut_array
    \/ Call_as_hex_slice
    \/ Call_as_mut_hex_slice
    \/ Call_deref
    \/ Call_deref_mut
    \/ Call_HexSlice_new
    \/ Call_HexSlice_new_mut
    \/ Call_as_slice
    \/ Call_as_mut_slice
    \/ Call_write
    \/ Call_fixed_into_other
    \/ Call_fixed_parse

SpecView == InitView /\ [][NextView]_vars

\* C23: the fixed-length invariant.  Whatever the calls made on a buffer of
\* size N (built from an array, parsed, viewed, written through a mutable
\* view, re-tagged), it holds N bytes, its hex text has 2N characters, and
\* a reference into it spans N bytes.
C23_FixedLength ==
    /\ Len(val.bytes) = N
    /\ Len(buf) = N
    /\ Len(DisplayOf(val)) = 2 * N
    /\ Len(to_upper(val.bytes)) = 2 * N
    /\ peer.tag = "ref" => peer.len = N

\* a buffer of two bytes written through a mutable view: still two bytes
C23_Witness ==
    /\ op = "write"
    /\ ret.tag = "written"
    /\ N = 2
    /\ text_from = "val"
    /\ val.bytes # orig
    /\ Len(val.bytes) = 2

ViewCalls ==
    {"as_array", "as_mut_array", "as_hex_slice", "as_mut_hex_slice", "deref",
     "deref_mut", "HexSlice::new", "HexSlice::new_mut", "as_slice", "as_mut_slice"}

\* C24: view aliasing.  A call that gives a view changes no byte, and the
\* view reads the bytes and the length of the place it was taken from; a
\* write of position k through a mutable view changes position k of that
\* place, which then reads the value written, and no other byte of it or of
\* anything else, so the hex text of the buffer written through is the old
\* one with the two characters of that byte replaced.
C24_ViewAliasing ==
    [][ /\ op' \in ViewCalls =>
              /\ val' = val /\ buf' = buf
              /\ load(val', buf', peer'.place) = load(val, buf, text_from')
              /\ peer'.len = Len(load(val, buf, text_from'))
        /\ (op' = "write" /\ ret'.tag = "written") =>
              LET k == ret'.index
                  before == load(val, buf, text_from)
                  after == load(val', buf', text_from)
              IN  /\ Len(after) = Len(before)
                  /\ after[k + 1] = ret'.value
                  /\ \A p \in 1..Len(before) : p # k + 1 => after[p] = before[p]
                  /\ load(val', buf', peer'.place) = after
                  /\ text_from = "val" =>
                        /\ buf' = buf
                        /\ DisplayOf(val') =
                              SubSeq(DisplayOf(val), 1, 2 * k)
                              \o DisplayOf(Value(val.family, val.tag, <<ret'.value>>))
                              \o SubSeq(DisplayOf(val), 2 * k + 3, 2 * Len(before))
                  /\ text_from = "buf" => val' = val
      ]_vars

\* HexArray::new([0x1a, 0x00]) written 0xff at position 1 through
\* as_mut_hex_slice: the buffer is now 1aff, the array it was built from is
\* as it was
C24_Witness ==
    /\ op = "write"
    /\ peer.ty = "HexSlice"
    /\ text_from = "val"
    /\ orig = <<26, 0>>
    /\ buf = <<26, 0>>
    /\ val = Value("HexArray", "generic", <<26, 255>>)
    /\ DisplayOf(val) = <<49, 97, 102, 102>>

\* C25: heap and stack parse agree.  For every text, N and case policy the
\* boxed parse returns what the stack parse returns: Ok with the same bytes,
\* or the identical error value; new_boxed(b) holds the bytes new(b) holds.
C25_BoxedAgrees ==
    /\ op = "HexArray::try_parse" =>
          ret = array_try_parse_boxed(text, ConversionFnOf(policy), N).ret
    /\ op = "HexArray::try_parse_boxed" =>
          ret = array_try_parse(text, ConversionFnOf(policy), N).ret
    /\ op = "HexArray::new" =>
          ret.bytes = buf /\ HexArray_new_boxed(buf).value = ret
    /\ op = "HexArray::new_boxed" =>
          ret.tag = "Box" /\ ret.value = HexArray_new(buf)

\* try_parse_lower_boxed::<2>("0aF0") fails with InvalidByte { msb: 'F',
\* lsb: '0', index: 2 }, as try_parse_lower::<2> does
C25_Witness ==
    /\ op = "HexArray::try_parse_boxed"
    /\ policy = "lower"
    /\ N = 2
    /\ text = <<48, 97, 70, 48>>
    /\ ret = InvalidByte(70, 48, 2)
    /\ HexArray_try_parse_lower(text, N).ret = ret

----------------------------------------------------------------------------
(* The unchecked reads of the fixed-length paths on a machine word of       *)
(* WordBits bits: texts of every length a word can hold.                    *)

\* str::len() is at most the largest word; an array of N bytes fits in half
\* the address space
WordLens == 0..(UsizeModulus - 1)
WordNs == 0..(UsizeModulus \div 2 - 1)
\* the text of length len reading 0123456789012.., but for position q
\* (none when q = 0), which holds the character c
WordText(len, q, c) == [p \in 1..len |-> IF p = q THEN c ELSE 48 + ((p - 1) % 10)]
\* the n bytes the pairs of a text stand for, 0 where there is no such pair
WordBuf(s, n) ==
    [k \in 1..n |->
        IF 2 * k <= Len(s) /\ decode_byte(s[2 * k - 1], s[2 * k], "any") # None
        THEN decode_byte(s[2 * k - 1], s[2 * k], "any")[1]
        ELSE 0]

InitWord ==
    /\ op = "init"
    /\ N \in WordNs
    /\ \E len \in WordLens, q \in 0..UsizeModulus, c \in {70, 103} :
          /\ q <= len
          /\ text = WordText(len, q, c)
    /\ \E d \in 0..N :
          buf = [k \in 1..N |-> IF k = d THEN (WordBuf(text, N)[k] + 1) % 256
                                ELSE WordBuf(text, N)[k]]
    /\ text_from = "none"
    /\ policy = "none"
    /\ ret = NoRet
    /\ reads = {}
    /\ val = NoVal
    /\ peer = NoVal
    /\ orig = <<>>
    /\ hops = 0

\* one call on the bench; nothing follows it
WordCall(name, pol, r) ==
    /\ op = "init"
    /\ op' = name
    /\ policy' = pol
    /\ ret' = r.ret
    /\ reads' = r.reads
    /\ UNCHANGED <<N, buf, text, text_from>>
    /\ UNCHANGED valvars

\* HexArray::<N>::try_parse(text), try_parse_lower, try_parse_upper
Call_word_try_parse ==
    \E pol \in {"any", "lower", "upper"} :
        WordCall("try_parse", pol, array_try_parse(text, ConversionFnOf(pol), N))
\* HexArray::<N>::try_parse_boxed(text), _lower_boxed, _upper_boxed
Call_word_try_parse_boxed ==
    \E pol \in {"any", "lower", "upper"} :
        WordCall("try_parse_boxed", pol, array_try_parse_boxed(text, ConversionFnOf(pol), N))
\* HexArray::new(buf) == *text
Call_word_HexArray_eq_str == WordCall("HexArray == str", "any", HexArray_eq_str(buf, text))
\* HexSlice::new(&buf) == text
Call_word_HexSlice_eq_str == WordCall("HexSlice == str", "any", HexSlice_eq_str(buf, text))

NextWord ==
    \/ Call_word_try_parse
    \/ Call_word_try_parse_boxed
    \/ Call_word_HexArray_eq_str
    \/ Call_word_HexSlice_eq_str

SpecWord == InitWord /\ [][NextWord]_vars

WordParse == op \in {"try_parse", "try_parse_boxed"}
WordEq == op \in {"HexArray == str", "HexSlice == str"}
\* the number of iterations the loop of the last call makes: none when the
\* length test fails, else up to and with the first pair that ends it
Iterations ==
    IF Len(text) % 2 # 0 \/ Len(text) \div 2 # N THEN 0
    ELSE IF WordParse
         THEN IF HasUndecodable(policy, text) THEN FirstUndecodable(policy, text) + 1 ELSE N
         ELSE IF TextMatches("any", buf, text) THEN N
              ELSE FirstNonMatch("any", buf, text) + 1

\* C26: the unchecked reads of the fixed-length paths stay in bounds.  In the
\* fixed-length parse and in the text-equality loops, on a word of WordBits
\* bits and for every text length up to 2^WordBits - 1, iteration k reads
\* positions 2k and 2k + 1 and nothing else, both below the length of the
\* text; no read is out of bounds, and a parse that succeeds returns the N
\* bytes of the pairs in order.
C26_ReadsInBounds ==
    (WordParse \/ WordEq) =>
        /\ ret # UB
        /\ \A r \in reads : r < Len(text)
        /\ reads = 0..(2 * Iterations - 1)
        /\ 2 * Iterations <= Len(text)
        /\ (WordParse /\ ret.tag = "Ok") =>
              Len(ret.value) = N /\ ret.value = DecodedBytes(text)
        /\ (WordEq /\ ret = Bool(TRUE)) => DecodedBytes(text) = buf

\* the longest even text a word can measure, parsed: every position read
C26_Witness ==
    /\ op = "try_parse"
    /\ Len(text) = UsizeModulus - 2
    /\ N = UsizeModulus \div 2 - 1
    /\ ret.tag = "Ok"
    /\ reads = 0..(UsizeModulus - 3)

----------------------------------------------------------------------------
(* The variable-length parse against the capacity Vec::with_capacity may    *)
(* report: "at least" the capacity asked for.                               *)

MaxSlack == 1

\* the capacities Vec::with_capacity(n) may report by its contract
with_capacity_at_least(n) == n..(n + MaxSlack)

\* hex_vector.rs try_parse on a vector whose capacity() reports `capacity`
vector_try_parse_reporting(bytes, conversion_fn, capacity) ==
    IF Len(bytes) % 2 # 0
    THEN [ret |-> HexVectorError_InvalidLength(Len(bytes)), reads |-> {}]
    ELSE vector_try_parse_loop(bytes, conversion_fn, capacity, 0, 1, <<>>, {})

InitCap ==
    /\ op = "init"
    /\ N = 0
    /\ text \in Texts
    /\ buf = <<>>
    /\ text_from = "none"
    /\ policy = "none"
    /\ ret = NoRet
    /\ reads = {}
    /\ val = NoVal
    /\ peer = NoVal
    /\ orig = <<>>
    /\ hops = 0

\* HexVector::try_parse(text), try_parse_lower, try_parse_upper; N is the
\* capacity the allocation reports
Call_vector_try_parse_reporting ==
    \E pol \in {"any", "lower", "upper"}, capacity \in with_capacity_at_least(Len(text) \div 2) :
        /\ op = "init"
        /\ op' = "HexVector::try_parse"
        /\ policy' = pol
        /\ N' = capacity
        /\ LET r == vector_try_parse_reporting(text, ConversionFnOf(pol), capacity)
           IN  ret' = r.ret /\ reads' = r.reads
        /\ UNCHANGED <<buf, text, text_from>>
        /\ UNCHANGED valvars

NextCap == Call_vector_try_parse_reporting

SpecCap == InitCap /\ [][NextCap]_vars

\* C27: the variable-length parse makes exactly len/2 iterations.  For every
\* even-length text and whatever capacity, at least len/2, the allocation
\* reports, every position read is below the length of the text and a parse
\* that succeeds returns exactly len/2 bytes.
C27_ExactIterations ==
    (op = "HexVector::try_parse" /\ Len(text) % 2 = 0) =>
        /\ ret # UB
        /\ \A r \in reads : r < Len(text)
        /\ Cardinality(reads) <= Len(text)
        /\ ret.tag = "Ok" => Len(ret.value) * 2 = Len(text)

\* C28: parse and text equality agree for every tagged type.  When the
\* string parse of a text s into a generic, lower or upper buffer type
\* returns Ok(v), v == s holds under that type's equality with text.
C28_ParseEqAgree ==
    op = "parsed == str" => ret = Bool(TRUE)

\* C29: display and text equality agree for every tagged type.  A generic,
\* lower or upper buffer, owned or borrowed, fixed or variable, compares
\* equal to its own display text, and the string parse of the display text
\* of an owned buffer into its type returns the bytes of that buffer.
C29_DisplayEqAgree ==
    /\ op = "displayed == str" => ret = Bool(TRUE)
    /\ op = "displayed.parse" => ret = Ok(val.bytes)

\* HexStringUpper::new([0x01, 0xde]), which displays as "01DE", is equal to
\* its display text
C29_Witness ==
    /\ op = "displayed == str"
    /\ val = Value("HexString", "upper", <<1, 222>>)
    /\ DisplayOf(val) = <<48, 49, 68, 69>>
    /\ ret = Bool(TRUE)

\* a decimal digit, and a character a single-case nibble rule accepts
IsDecimalDigit(c) == c \in 48..57
SingleCaseAccepts(c) == parse_hex_lower(c) # None \/ parse_hex_upper(c) # None

\* C30: the case policies are nested.  For every byte pair: a pair the
\* lowercase-only or the uppercase-only decoder accepts is accepted by the
\* accept-both decoder with the same byte value; both single-case decoders
\* accept it exactly when both characters are decimal digits; the
\* accept-both decoder accepts it exactly when each character is accepted by
\* at least one single-case nibble rule, so a pair with a lowercase and an
\* uppercase letter is accepted by the accept-both decoder only.
C30_NestedPolicies ==
    op = "from_hex" =>
        LET any == from_hex(text)
            lower == from_hex_lower(text)
            upper == from_hex_upper(text)
        IN  /\ ret.value = (CASE policy = "any" -> any
                              [] policy = "lower" -> lower
                              [] policy = "upper" -> upper)
            /\ lower # None => any = lower
            /\ upper # None => any = upper
            /\ (lower # None /\ upper # None) <=>
                  (IsDecimalDigit(text[1]) /\ IsDecimalDigit(text[2]))
            /\ any # None <=> (SingleCaseAccepts(text[1]) /\ SingleCaseAccepts(text[2]))
            /\ (\E p, q \in 1..2 : IsLowerLetter(text[p]) /\ IsUpperLetter(text[q])) =>
                  any # None /\ lower = None /\ upper = None

\* from_hex("Aa") is Some(0xaa); from_hex_lower and from_hex_upper give None
C30_Witness ==
    /\ op = "from_hex"
    /\ policy = "any"
    /\ text = <<65, 97>>
    /\ ret.value = Some(170)
    /\ from_hex_lower(text) = None
    /\ from_hex_upper(text) = None

====
